---- MODULE Spec2Model ----
(***************************************************************************)
(* callaudiod, src/cad-pulse.c: the PulseAudio back-end of the call-audio  *)
(* daemon.  The module models the CadPulse object, the requests it sends   *)
(* to the PulseAudio server, the callbacks the server's replies and        *)
(* subscription events run, and the three intents (select mode, enable     *)
(* speaker, mute mic).                                                     *)
(*                                                                         *)
(* Strings are sequences of tokens (<<"[Out] ", "Speaker">>): strcmp is    *)
(* equality of the sequences, strstr a contiguous sub-sequence, and        *)
(* g_str_has_prefix a prefix.  A NULL string is the empty sequence; the    *)
(* model holds no empty C string.                                          *)
(***************************************************************************)
EXTENDS Integers, Sequences, FiniteSets, TLC

VARIABLES
    self,    \* the CadPulse object (struct _CadPulse)
    alive,   \* FALSE once the process has crashed on undefined behaviour
    srv,     \* the PulseAudio server: hardware flavor and mutable objects
    queue,   \* requests sent on the context and not yet answered (FIFO)
    ops,     \* every CadPulseOperation allocated so far
    mon,     \* history: what the completion handles and the server have seen
    sel      \* the port selectors' harness: inputs and result

vars == <<self, alive, srv, queue, ops, mon, sel>>

(***************************************************************************)
(* Bounds of the model.                                                    *)
(***************************************************************************)
MaxOps == 2        \* intents issued in one behaviour
MaxEvents == 1     \* subscription events the server raises in one behaviour
MaxPorts == 3      \* ports of a sink/source handed to a selector
MaxToggles == 3    \* EnableSpeaker intents of one on/off/on sequence
MaxIntents == 1    \* intents issued in one behaviour with failing connections
MaxFail == 1       \* failures of the server connection in one behaviour
MaxCards == 2      \* cards the server lists besides the platform card
MaxPrio == 1       \* port priorities handed to a selector are 0..MaxPrio

(***************************************************************************)
(* Strings of the program and of the libraries it is built against.        *)
(***************************************************************************)
NULL == <<>>

SINK_CLASS == <<"sound">>
CARD_BUS_PATH_PREFIX == <<"platform-">>
CARD_FORM_FACTOR == <<"internal">>
CARD_MODEM_CLASS == <<"modem">>
WITH_DROID_SUPPORT == TRUE
DROID_API_NAME == <<"droid-hal">>
DROID_PROFILE_HIFI == <<"default">>
DROID_PROFILE_VOICECALL == <<"voicecall">>
DROID_OUTPUT_PORT_PARKING == <<"output-parking">>
DROID_OUTPUT_PORT_SPEAKER == <<"output-speaker">>
DROID_OUTPUT_PORT_EARPIECE == <<"output-earpiece">>
DROID_OUTPUT_PORT_WIRED_HEADSET == <<"output-wired_headset">>
DROID_INPUT_PORT_PARKING == <<"input-parking">>
DROID_INPUT_PORT_BUILTIN_MIC == <<"input-builtin_mic">>
DROID_INPUT_PORT_WIRED_HEADSET_MIC == <<"input-wired_headset">>
MODULE_SWITCH_ON_PORT_AVAILABLE == <<"module-switch-on-port-available">>

\* alsa/use-case.h
SND_USE_CASE_VERB_HIFI == <<"HiFi">>
SND_USE_CASE_VERB_VOICECALL == <<"Voice Call">>
SND_USE_CASE_DEV_SPEAKER == <<"Speaker">>

\* pulse/def.h: enum pa_port_available
PA_PORT_AVAILABLE_UNKNOWN == 0
PA_PORT_AVAILABLE_NO == 1
PA_PORT_AVAILABLE_YES == 2

\* libcallaudio.h: CallAudioMode, and the CadOperation types
CALL_AUDIO_MODE_DEFAULT == 0
CALL_AUDIO_MODE_CALL == 1
CAD_OPERATION_SELECT_MODE == "select_mode"
CAD_OPERATION_ENABLE_SPEAKER == "enable_speaker"
CAD_OPERATION_MUTE_MIC == "mute_mic"

\* strstr(haystack, needle) != NULL
strstr(haystack, needle) ==
    \E i \in 0..(Len(haystack) - Len(needle)) :
        \A j \in 1..Len(needle) : haystack[i + j] = needle[j]

\* g_str_has_prefix(str, prefix)
g_str_has_prefix(str, prefix) ==
    /\ Len(prefix) <= Len(str)
    /\ \A j \in 1..Len(prefix) : str[j] = prefix[j]

(***************************************************************************)
(* Port selectors.  A port is [name, available, priority]; NoPort is the   *)
(* NULL available_port of the loops.                                       *)
(***************************************************************************)
NoPort == [name |-> NULL, available |-> PA_PORT_AVAILABLE_UNKNOWN, priority |-> 0]

\* the `continue` of the source loop
source_port_skipped(port, exclude) ==
    \/ (exclude # NULL /\ port.name = exclude)
    \/ port.available = PA_PORT_AVAILABLE_NO

\* the droid branch of the source loop: the port kept, and whether it breaks
droid_source_pick_nobreak(port, available_port) ==
    IF port.name = DROID_INPUT_PORT_WIRED_HEADSET_MIC
    THEN [port |-> port, brk |-> FALSE]
    ELSE IF port.name = DROID_INPUT_PORT_BUILTIN_MIC
         THEN [port |-> port, brk |-> FALSE]
         ELSE [port |-> available_port, brk |-> FALSE]

droid_source_pick(port, available_port) ==
    IF port.name = DROID_INPUT_PORT_WIRED_HEADSET_MIC
    THEN [port |-> port, brk |-> TRUE]
    ELSE IF port.name = DROID_INPUT_PORT_BUILTIN_MIC
         THEN [port |-> port, brk |-> FALSE]
         ELSE [port |-> available_port, brk |-> FALSE]

\* the native branch of the source loop
native_source_pick(port, available_port) ==
    IF available_port = NoPort \/ port.priority > available_port.priority
    THEN port
    ELSE available_port

RECURSIVE source_port_loop(_, _, _, _, _)
source_port_loop(ports, exclude, source_is_droid, i, available_port) ==
    IF i > Len(ports)
    THEN available_port
    ELSE IF source_port_skipped(ports[i], exclude)
         THEN source_port_loop(ports, exclude, source_is_droid, i + 1, available_port)
         ELSE IF source_is_droid
              THEN LET r == droid_source_pick(ports[i], available_port)
                   IN  IF r.brk
                       THEN r.port
                       ELSE source_port_loop(ports, exclude, source_is_droid, i + 1, r.port)
              ELSE source_port_loop(ports, exclude, source_is_droid, i + 1,
                                    native_source_pick(ports[i], available_port))

get_available_source_port(source, exclude, source_is_droid) ==
    LET available_port == source_port_loop(source.ports, exclude, source_is_droid, 1, NoPort)
    IN  IF available_port # NoPort THEN available_port.name ELSE NULL

\* the `continue` of the sink loop
sink_port_skipped_excluded_only(port, exclude) ==
    exclude # NULL /\ port.name = exclude

sink_port_skipped(port, exclude) ==
    \/ (exclude # NULL /\ port.name = exclude)
    \/ port.available = PA_PORT_AVAILABLE_NO

\* the droid branch of the sink loop
droid_sink_pick(port, available_port) ==
    IF port.name = DROID_OUTPUT_PORT_WIRED_HEADSET
    THEN [port |-> port, brk |-> TRUE]
    ELSE IF port.name = DROID_OUTPUT_PORT_SPEAKER \/ port.name = DROID_OUTPUT_PORT_EARPIECE
         THEN [port |-> port, brk |-> FALSE]
         ELSE [port |-> available_port, brk |-> FALSE]

\* the native branch of the sink loop
native_sink_pick_last_of_equals(port, available_port) ==
    IF available_port = NoPort \/ port.priority >= available_port.priority
    THEN port
    ELSE available_port

native_sink_pick(port, available_port) ==
    IF available_port = NoPort \/ port.priority > available_port.priority
    THEN port
    ELSE available_port

RECURSIVE sink_port_loop(_, _, _, _, _)
sink_port_loop(ports, exclude, source_is_droid, i, available_port) ==
    IF i > Len(ports)
    THEN available_port
    ELSE IF sink_port_skipped(ports[i], exclude)
         THEN sink_port_loop(ports, exclude, source_is_droid, i + 1, available_port)
         ELSE IF source_is_droid
              THEN LET r == droid_sink_pick(ports[i], available_port)
                   IN  IF r.brk
                       THEN r.port
                       ELSE sink_port_loop(ports, exclude, source_is_droid, i + 1, r.port)
              ELSE sink_port_loop(ports, exclude, source_is_droid, i + 1,
                                  native_sink_pick(ports[i], available_port))

get_available_sink_port(sink, exclude, source_is_droid) ==
    LET available_port == sink_port_loop(sink.ports, exclude, source_is_droid, 1, NoPort)
    IN  IF available_port # NoPort THEN available_port.name ELSE NULL

(***************************************************************************)
(* The PulseAudio server.  One platform card with one sink and one source; *)
(* srv.droid tells whether they are served by the droid module, srv.voice  *)
(* whether the card has a voice-call profile; srv.sourceDroid is the       *)
(* source's own device API, which the sink's need not share.  Sinks and   *)
(* sources get a new index whenever they appear, cards keep theirs.        *)
(* srv.before and                                                          *)
(* srv.after are the other cards the server lists before and after the     *)
(* platform card, srv.cardUp whether the platform card is there at all;    *)
(* srv.sinkCard and srv.sourceCard are the owning-card fields of the sink  *)
(* and the source, PA_INVALID_INDEX for a device that belongs to no card.  *)
(* srv.sink2 tells whether the same card has a second sink and of what     *)
(* kind: "hdmi" has a single port and no speaker port, "stereo" has two    *)
(* ports that carry the speaker token.                                     *)
(***************************************************************************)
CardIdx == 0
FirstSinkIdx == 1
FirstSourceIdx == 2
SwitchModuleIdx == 7
FirstOtherCardIdx == 4
SecondSinkIdx == 9
PA_INVALID_INDEX == -1   \* (uint32_t) -1: equal to an int -1 where the code compares them

OtherProfile == <<"off">>

CardProfiles(droid, voice) ==
    IF droid
    THEN <<DROID_PROFILE_HIFI>> \o (IF voice THEN <<DROID_PROFILE_VOICECALL>> ELSE <<>>)
         \o <<OtherProfile>>
    ELSE <<SND_USE_CASE_VERB_HIFI>> \o (IF voice THEN <<SND_USE_CASE_VERB_VOICECALL>> ELSE <<>>)
         \o <<OtherProfile>>

Port(name, available, priority) ==
    [name |-> name, available |-> available, priority |-> priority]

SinkPortsOf(droid, headset) ==
    IF droid
    THEN << Port(DROID_OUTPUT_PORT_PARKING, PA_PORT_AVAILABLE_UNKNOWN, 50),
            Port(DROID_OUTPUT_PORT_EARPIECE, PA_PORT_AVAILABLE_UNKNOWN, 100),
            Port(DROID_OUTPUT_PORT_SPEAKER, PA_PORT_AVAILABLE_UNKNOWN, 200),
            Port(DROID_OUTPUT_PORT_WIRED_HEADSET, headset, 300) >>
    ELSE << Port(<<"[Out] ", "Earpiece">>, PA_PORT_AVAILABLE_UNKNOWN, 100),
            Port(<<"[Out] ", "Speaker">>, PA_PORT_AVAILABLE_UNKNOWN, 200),
            Port(<<"[Out] ", "Headphones">>, headset, 300) >>

SourcePortsOf(droid, headset) ==
    IF droid
    THEN << Port(DROID_INPUT_PORT_PARKING, PA_PORT_AVAILABLE_UNKNOWN, 50),
            Port(DROID_INPUT_PORT_BUILTIN_MIC, PA_PORT_AVAILABLE_UNKNOWN, 100),
            Port(DROID_INPUT_PORT_WIRED_HEADSET_MIC, headset, 200) >>
    ELSE << Port(<<"[In] ", "Mic">>, PA_PORT_AVAILABLE_UNKNOWN, 100),
            Port(<<"[In] ", "Headset">>, headset, 200) >>

Modules ==
    << [index |-> 3, name |-> <<"module-native-protocol-unix">>],
       [index |-> SwitchModuleIdx, name |-> MODULE_SWITCH_ON_PORT_AVAILABLE] >>

PortNames(ports) == {ports[i].name : i \in 1..Len(ports)}
Range(seq) == {seq[i] : i \in 1..Len(seq)}

\* a NULL info pointer
NoInfo == [index |-> PA_INVALID_INDEX]

card_info(s) ==
    [index |-> CardIdx,
     bus_path |-> <<"platform-", "sound">>,
     form_factor |-> <<"internal">>,
     class |-> <<"sound">>,
     profiles |-> CardProfiles(s.droid, s.voice),
     active_profile |-> s.profile]

\* the info of one of the other cards
other_card_info(s, d) ==
    [index |-> d.index,
     bus_path |-> d.bus_path,
     form_factor |-> d.form_factor,
     class |-> d.class,
     profiles |-> CardProfiles(s.droid, d.voice),
     active_profile |-> d.active]

\* the cards in the order the server lists them
card_infos(s) ==
    [i \in DOMAIN s.before |-> other_card_info(s, s.before[i])]
        \o (IF s.cardUp THEN <<card_info(s)>> ELSE <<>>)
        \o [i \in DOMAIN s.after |-> other_card_info(s, s.after[i])]

sink_info(s) ==
    [index |-> s.sinkIdx,
     card |-> s.sinkCard,
     class |-> s.sinkClass,
     api |-> IF s.droid THEN DROID_API_NAME ELSE <<"alsa">>,
     ports |-> SinkPortsOf(s.droid, s.headset),
     active_port |-> s.sinkPort]

SecondSinkPortsOf(kind, droid) ==
    IF kind = "stereo"
    THEN IF droid
         THEN << Port(DROID_OUTPUT_PORT_SPEAKER, PA_PORT_AVAILABLE_UNKNOWN, 200),
                 Port(<<"output-speaker", "_safe">>, PA_PORT_AVAILABLE_UNKNOWN, 100) >>
         ELSE << Port(<<"[Out] ", "Speaker", " Left">>, PA_PORT_AVAILABLE_UNKNOWN, 200),
                 Port(<<"[Out] ", "Speaker", " Right">>, PA_PORT_AVAILABLE_UNKNOWN, 100) >>
    ELSE IF droid
         THEN << Port(<<"output-aux_digital">>, PA_PORT_AVAILABLE_YES, 400) >>
         ELSE << Port(<<"[Out] ", "HDMI">>, PA_PORT_AVAILABLE_YES, 400) >>

\* the info of the second sink
sink2_info(s) ==
    [index |-> SecondSinkIdx,
     card |-> s.sinkCard,
     class |-> s.sinkClass,
     api |-> IF s.droid THEN DROID_API_NAME ELSE <<"alsa">>,
     ports |-> SecondSinkPortsOf(s.sink2, s.droid),
     active_port |-> s.sink2Port]

\* the sinks in the order the server lists them
sink_infos(s) ==
    (IF s.sinkUp THEN <<sink_info(s)>> ELSE <<>>)
        \o (IF s.sink2 # "none" THEN <<sink2_info(s)>> ELSE <<>>)

source_info(s) ==
    [index |-> s.sourceIdx,
     card |-> s.sourceCard,
     class |-> s.sourceClass,
     api |-> IF s.sourceDroid THEN DROID_API_NAME ELSE <<"alsa">>,
     ports |-> SourcePortsOf(s.sourceDroid, s.headset),
     active_port |-> s.sourcePort,
     mute |-> s.mute]

(***************************************************************************)
(* The client side.  A handler is an operator from the client's context c  *)
(* = [self, ops, q, mon, alive, ub] to the context it leaves: q is the     *)
(* queue of requests it appends to, ub the outcome the build produces      *)
(* where the handler runs into undefined behaviour.                        *)
(***************************************************************************)
Request(k, idx, arg, val, cb, data) ==
    [k |-> k, idx |-> idx, arg |-> arg, val |-> val, cb |-> cb, data |-> data]

\* a request goes out; ops[data].log keeps what was requested for an operation
Send(c, k, idx, arg, val, cb, data) ==
    [c EXCEPT !.q = Append(@, Request(k, idx, arg, val, cb, data)),
              !.ops = IF data \in DOMAIN c.ops
                      THEN [@ EXCEPT ![data].log = Append(@, <<k, arg>>)]
                      ELSE @]

\* a read through a CadPulseOperation pointer: after free() it is a use after free
Deref(c, o) ==
    [c EXCEPT !.mon.uaf = @ \/ c.ops[o].freed]

\* GHashTable of port name -> availability; a missing key reads as 0
NullTable == [null |-> TRUE, map |-> <<>>]
NewTable == [null |-> FALSE, map |-> <<>>]

g_hash_table_lookup(t, key) ==
    IF ~t.null /\ key \in DOMAIN t.map THEN t.map[key] ELSE 0

g_hash_table_insert(t, key, value) ==
    IF t.null
    THEN t
    ELSE [t EXCEPT !.map = [k \in (DOMAIN t.map) \cup {key} |->
                                IF k = key THEN value ELSE t.map[k]]]

\* the common prologue of the reply handlers
reply_ignored(info, eol) ==
    eol # 0 \/ info = NoInfo

\* operation_complete_cb: current_mode after the completion handle returned
mode_update_never(op, success, current_mode) ==
    current_mode

mode_update_any_type(op, success, current_mode) ==
    IF success THEN op.value ELSE current_mode

mode_update(op, success, current_mode) ==
    IF op.type = CAD_OPERATION_SELECT_MODE /\ success
    THEN op.value
    ELSE current_mode

operation_complete_cb(c, success, o) ==
    IF o = 0
    THEN c
    ELSE LET c1 == Deref(c, o)
             op == c.ops[o]
             ok == success # 0
         IN  IF op.op
             THEN [c1 EXCEPT
                      !.ops[o].success = ok,
                      !.ops[o].calls = @ + 1,
                      !.ops[o].seen = c.self.current_mode,
                      !.ops[o].freed = TRUE,
                      !.self.current_mode = mode_update(op, ok, @),
                      !.mon.lastOk = IF op.type = CAD_OPERATION_SELECT_MODE /\ ok
                                     THEN op.value ELSE @]
             ELSE [c1 EXCEPT !.ops[o].freed = TRUE]

droid_source_parked_complete_cb(c, success, o) ==
    Send(Deref(c, o), "get_sink_info_by_index", c.self.sink_id, NULL, 0,
         "set_output_port", o)

droid_sink_parked_complete_cb_source_unparked(c, success, o) ==
    Send(Deref(c, o), "get_sink_info_by_index", c.self.sink_id,
         NULL, 0, "set_output_port", o)

droid_sink_parked_complete_cb(c, success, o) ==
    Send(Deref(c, o), "set_source_port_by_index", c.self.source_id,
         DROID_INPUT_PORT_PARKING, 0, "droid_source_parked_complete_cb", o)

droid_mode_change_complete_cb_no_return(c, success, o) ==
    LET c1 == IF ~c.self.sink_is_droid
              THEN operation_complete_cb(Deref(c, o), success, o)
              ELSE c
    IN  Send(Deref(c1, o), "set_sink_port_by_index", c1.self.sink_id,
             DROID_OUTPUT_PORT_PARKING, 0, "droid_sink_parked_complete_cb", o)

droid_mode_change_complete_cb(c, success, o) ==
    IF ~c.self.sink_is_droid
    THEN operation_complete_cb(Deref(c, o), success, o)
    ELSE Send(Deref(c, o), "set_sink_port_by_index", c.self.sink_id,
              DROID_OUTPUT_PORT_PARKING, 0, "droid_sink_parked_complete_cb", o)

droid_output_port_change_complete_cb(c, success, o) ==
    Send(Deref(c, o), "get_source_info_by_index", c.self.source_id, NULL, 0,
         "set_input_port", o)

\* set_card_profile: the profile to request, NULL when nothing is to be done
profile_target_call_only(active, value, default_profile, voicecall_profile) ==
    IF active = default_profile /\ value = 1
    THEN voicecall_profile
    ELSE NULL

profile_target(active, value, default_profile, voicecall_profile) ==
    IF active = voicecall_profile /\ value = 0
    THEN default_profile
    ELSE IF active = default_profile /\ value = 1
         THEN voicecall_profile
         ELSE NULL

set_card_profile(c, info, eol, o) ==
    IF reply_ignored(info, eol)
    THEN c
    ELSE IF info.index # c.self.card_id
         THEN Deref(c, o)
         ELSE LET default_profile == IF c.self.sink_is_droid
                                     THEN DROID_PROFILE_HIFI
                                     ELSE SND_USE_CASE_VERB_HIFI
                  voicecall_profile == IF c.self.sink_is_droid
                                       THEN DROID_PROFILE_VOICECALL
                                       ELSE SND_USE_CASE_VERB_VOICECALL
                  target == profile_target(info.active_profile, c.ops[o].value,
                                           default_profile, voicecall_profile)
              IN  IF target # NULL
                  THEN Send(Deref(c, o), "set_card_profile_by_index", c.self.card_id,
                            target, 0, "droid_mode_change_complete_cb", o)
                  ELSE operation_complete_cb(Deref(c, o), 1, o)

\* strcmp(active, target) != 0 followed by the set-port request or the direct
\* completion; strcmp on a NULL pointer is undefined: the process crashes, or
\* the comparison yields either result
port_step(c, active, target, k, idx, cb, o) ==
    LET differ == IF active = NULL \/ target = NULL
                  THEN c.ub = "differ"
                  ELSE active # target
    IN  IF (active = NULL \/ target = NULL) /\ c.ub = "crash"
        THEN [c EXCEPT !.alive = FALSE]
        ELSE IF differ
             THEN Send(c, k, idx, target, 0, cb, o)
             ELSE operation_complete_cb(c, 1, o)

set_output_port_never_verbatim(c, info, eol, o) ==
    IF reply_ignored(info, eol)
    THEN c
    ELSE IF info.card # c.self.card_id \/ info.index # c.self.sink_id
         THEN Deref(c, o)
         ELSE LET op == c.ops[o]
                  target_port ==
                      IF op.type = CAD_OPERATION_SELECT_MODE
                      THEN IF op.value = CALL_AUDIO_MODE_CALL
                           THEN get_available_sink_port(info, c.self.speaker_port,
                                                        c.self.source_is_droid)
                           ELSE get_available_sink_port(info, NULL, c.self.source_is_droid)
                      ELSE IF op.value # 0
                           THEN get_available_sink_port(info, NULL, c.self.source_is_droid)
                           ELSE get_available_sink_port(info, c.self.speaker_port,
                                                        c.self.source_is_droid)
              IN  port_step(Deref(c, o), info.active_port, target_port,
                            "set_sink_port_by_index", c.self.sink_id,
                            "droid_output_port_change_complete_cb", o)

set_output_port(c, info, eol, o) ==
    IF reply_ignored(info, eol)
    THEN c
    ELSE IF info.card # c.self.card_id \/ info.index # c.self.sink_id
         THEN Deref(c, o)
         ELSE LET op == c.ops[o]
                  target_port ==
                      IF op.type = CAD_OPERATION_SELECT_MODE
                      THEN IF op.value = CALL_AUDIO_MODE_CALL
                           THEN get_available_sink_port(info, c.self.speaker_port,
                                                        c.self.source_is_droid)
                           ELSE get_available_sink_port(info, NULL, c.self.source_is_droid)
                      ELSE IF op.value # 0
                           THEN c.self.speaker_port
                           ELSE get_available_sink_port(info, c.self.speaker_port,
                                                        c.self.source_is_droid)
              IN  port_step(Deref(c, o), info.active_port, target_port,
                            "set_sink_port_by_index", c.self.sink_id,
                            "droid_output_port_change_complete_cb", o)

set_input_port(c, info, eol, o) ==
    IF reply_ignored(info, eol)
    THEN c
    ELSE IF info.card # c.self.card_id \/ info.index # c.self.source_id
         THEN Deref(c, o)
         ELSE LET target_port == get_available_source_port(info, NULL,
                                                           c.self.source_is_droid)
              IN  port_step(Deref(c, o), info.active_port, target_port,
                            "set_source_port_by_index", c.self.source_id,
                            "operation_complete_cb", o)

set_mic_mute_unconditional(c, info, eol, o) ==
    IF reply_ignored(info, eol)
    THEN c
    ELSE IF info.card # c.self.card_id \/ info.index # c.self.source_id
         THEN Deref(c, o)
         ELSE Send(Deref(c, o), "set_source_mute_by_index", c.self.source_id,
                   NULL, IF c.ops[o].value # 0 THEN 1 ELSE 0,
                   "operation_complete_cb", o)

set_mic_mute(c, info, eol, o) ==
    IF reply_ignored(info, eol)
    THEN c
    ELSE IF info.card # c.self.card_id \/ info.index # c.self.source_id
         THEN Deref(c, o)
         ELSE IF info.mute /\ c.ops[o].value = 0
              THEN Send(Deref(c, o), "set_source_mute_by_index", c.self.source_id,
                        NULL, 0, "operation_complete_cb", o)
              ELSE IF ~info.mute /\ c.ops[o].value # 0
                   THEN Send(Deref(c, o), "set_source_mute_by_index", c.self.source_id,
                             NULL, 1, "operation_complete_cb", o)
                   ELSE operation_complete_cb(Deref(c, o), 1, o)

(***************************************************************************)
(* Discovery and the subscription callback.                                *)
(***************************************************************************)
RECURSIVE fill_ports(_, _, _)
fill_ports(ports, i, table) ==
    IF i > Len(ports)
    THEN table
    ELSE fill_ports(ports, i + 1,
                    IF ports[i].available # PA_PORT_AVAILABLE_UNKNOWN
                    THEN g_hash_table_insert(table, ports[i].name, ports[i].available)
                    ELSE table)

is_speaker_port(port, sink_is_droid) ==
    \/ (sink_is_droid /\ port.name = DROID_OUTPUT_PORT_SPEAKER)
    \/ (~sink_is_droid /\ strstr(port.name, SND_USE_CASE_DEV_SPEAKER))

RECURSIVE speaker_scan(_, _, _, _)
speaker_scan(ports, sink_is_droid, i, speaker_port) ==
    IF i > Len(ports)
    THEN speaker_port
    ELSE speaker_scan(ports, sink_is_droid, i + 1,
                      IF is_speaker_port(ports[i], sink_is_droid)
                      THEN ports[i].name
                      ELSE speaker_port)

process_new_source(s, info) ==
    IF info.class # NULL /\ info.class # SINK_CLASS
    THEN s
    ELSE IF info.card # s.card_id \/ s.source_id # -1
         THEN s
         ELSE [s EXCEPT
                  !.source_is_droid = (info.api # NULL /\ info.api = DROID_API_NAME),
                  !.source_id = info.index,
                  !.source_ports = fill_ports(info.ports, 1, NewTable)]

init_source_info(c, info, eol) ==
    IF reply_ignored(info, eol)
    THEN c
    ELSE LET s == process_new_source(c.self, info)
             c1 == [c EXCEPT !.self = s]
             target_port == get_available_source_port(info, NULL, s.source_is_droid)
         IN  IF s.source_id < 0
             THEN c1
             ELSE IF target_port # NULL
                  THEN Send(c1, "set_source_port_by_index", s.source_id, target_port, 0,
                            "NULL", 0)
                  ELSE c1

process_new_sink(s, info) ==
    IF info.class # NULL /\ info.class # SINK_CLASS
    THEN s
    ELSE IF info.card # s.card_id \/ s.sink_id # -1
         THEN s
         ELSE LET droid == info.api # NULL /\ info.api = DROID_API_NAME
              IN  [s EXCEPT
                      !.sink_is_droid = droid,
                      !.sink_id = info.index,
                      !.sink_ports = fill_ports(info.ports, 1, NewTable),
                      !.speaker_port = speaker_scan(info.ports, droid, 1, @)]

init_sink_info(c, info, eol) ==
    IF reply_ignored(info, eol)
    THEN c
    ELSE LET s == process_new_sink(c.self, info)
             c1 == [c EXCEPT !.self = s]
             target_port == get_available_sink_port(info, NULL, s.source_is_droid)
         IN  IF s.sink_id < 0
             THEN c1
             ELSE IF target_port # NULL
                  THEN Send(c1, "set_sink_port_by_index", s.sink_id, target_port, 0,
                            "NULL", 0)
                  ELSE c1

\* the reconciliation loop: [table, change]
RECURSIVE reconcile_ports(_, _, _)
reconcile_ports(ports, i, r) ==
    IF i > Len(ports)
    THEN r
    ELSE reconcile_ports(ports, i + 1,
            IF /\ ports[i].available # PA_PORT_AVAILABLE_UNKNOWN
               /\ g_hash_table_lookup(r.table, ports[i].name) # ports[i].available
            THEN [table |-> g_hash_table_insert(r.table, ports[i].name, ports[i].available),
                  change |-> TRUE]
            ELSE r)

change_source_info(c, info, eol) ==
    IF reply_ignored(info, eol)
    THEN c
    ELSE IF info.index # c.self.source_id
         THEN c
         ELSE LET r == reconcile_ports(info.ports, 1,
                                       [table |-> c.self.source_ports, change |-> FALSE])
                  c1 == [c EXCEPT !.self.source_ports = r.table]
                  target_port == get_available_source_port(info, NULL,
                                                           c.self.source_is_droid)
              IN  IF r.change /\ target_port # NULL
                  THEN Send(c1, "set_source_port_by_index", c.self.source_id, target_port,
                            0, "NULL", 0)
                  ELSE c1

change_sink_info(c, info, eol) ==
    IF reply_ignored(info, eol)
    THEN c
    ELSE IF info.index # c.self.sink_id
         THEN c
         ELSE LET r == reconcile_ports(info.ports, 1,
                                       [table |-> c.self.sink_ports, change |-> FALSE])
                  c1 == [c EXCEPT !.self.sink_ports = r.table]
                  target_port == get_available_sink_port(info, NULL, c.self.source_is_droid)
              IN  IF r.change /\ target_port # NULL
                  THEN Send(c1, "set_sink_port_by_index", c.self.sink_id, target_port, 0,
                            "NULL", 0)
                  ELSE c1

has_voice_name(profiles) ==
    \E i \in 1..Len(profiles) :
        \/ strstr(profiles[i], SND_USE_CASE_VERB_VOICECALL)
        \/ strstr(profiles[i], DROID_PROFILE_VOICECALL)

init_card_info(c, info, eol) ==
    IF reply_ignored(info, eol)
    THEN c
    ELSE IF info.bus_path # NULL /\ ~g_str_has_prefix(info.bus_path, CARD_BUS_PATH_PREFIX)
         THEN c
         ELSE IF info.form_factor # NULL /\ info.form_factor # CARD_FORM_FACTOR
              THEN c
              ELSE IF info.class # NULL /\ info.class = CARD_MODEM_CLASS
                   THEN c
                   ELSE [c EXCEPT
                            !.self.card_id = info.index,
                            !.self.has_voice_profile = @ \/ has_voice_name(info.profiles)]

init_module_info(c, info, eol) ==
    IF reply_ignored(info, eol)
    THEN c
    ELSE IF ~WITH_DROID_SUPPORT /\ info.name = MODULE_SWITCH_ON_PORT_AVAILABLE
         THEN Send(c, "unload_module", info.index, NULL, 0, "NULL", 0)
         ELSE c

init_pulseaudio_objects_ids_kept(c) ==
    LET c1 == Send(c, "get_card_info_list", PA_INVALID_INDEX, NULL, 0, "init_card_info", 0)
        c2 == Send(c1, "get_module_info_list", PA_INVALID_INDEX, NULL, 0,
                   "init_module_info", 0)
        c3 == Send(c2, "get_sink_info_list", PA_INVALID_INDEX, NULL, 0, "init_sink_info", 0)
    IN  Send(c3, "get_source_info_list", PA_INVALID_INDEX, NULL, 0, "init_source_info", 0)

init_pulseaudio_objects(c) ==
    LET c0 == [c EXCEPT !.self.card_id = -1, !.self.sink_id = -1, !.self.source_id = -1,
                        !.self.sink_ports = NullTable, !.self.source_ports = NullTable]
        c1 == Send(c0, "get_card_info_list", PA_INVALID_INDEX, NULL, 0, "init_card_info", 0)
        c2 == Send(c1, "get_module_info_list", PA_INVALID_INDEX, NULL, 0,
                   "init_module_info", 0)
        c3 == Send(c2, "get_sink_info_list", PA_INVALID_INDEX, NULL, 0, "init_sink_info", 0)
    IN  Send(c3, "get_source_info_list", PA_INVALID_INDEX, NULL, 0, "init_source_info", 0)

changed_cb(c, facility, kind, idx) ==
    CASE facility = "SINK" ->
            IF idx = c.self.sink_id /\ kind = "REMOVE"
            THEN [c EXCEPT !.self.sink_id = -1, !.self.sink_ports = NullTable]
            ELSE IF kind = "NEW"
                 THEN Send(c, "get_sink_info_by_index", idx, NULL, 0, "init_sink_info", 0)
                 ELSE c
      [] facility = "SOURCE" ->
            IF idx = c.self.source_id /\ kind = "REMOVE"
            THEN [c EXCEPT !.self.source_id = -1, !.self.source_ports = NullTable]
            ELSE IF kind = "NEW"
                 THEN Send(c, "get_source_info_by_index", idx, NULL, 0,
                           "init_source_info", 0)
                 ELSE c
      [] facility = "CARD" ->
            IF idx = c.self.card_id /\ kind = "CHANGE"
            THEN LET c1 == IF ~c.self.sink_is_droid /\ c.self.sink_id # -1
                           THEN Send(c, "get_sink_info_by_index", c.self.sink_id, NULL, 0,
                                     "change_sink_info", 0)
                           ELSE c
                 IN  IF ~c.self.source_is_droid /\ c.self.source_id # -1
                     THEN Send(c1, "get_source_info_by_index", c.self.source_id, NULL, 0,
                               "change_source_info", 0)
                     ELSE c1
            ELSE c
      [] OTHER -> c

\* pulseaudio_cleanup drops the context: its pending requests are never answered
pulse_state_cb(c, state) ==
    CASE state = "FAILED" -> [c EXCEPT !.self.ctx = "connecting", !.q = <<>>]
      [] state \in {"TERMINATED", "READY"} ->
            init_pulseaudio_objects([c EXCEPT !.self.ctx = "ready"])
      [] OTHER -> c

(***************************************************************************)
(* The intents.  cad_op is FALSE for a NULL CadOperation.                  *)
(***************************************************************************)
NewOperation(type, value, cad_op) ==
    [type |-> type, value |-> value, op |-> cad_op,
     calls |-> 0, success |-> FALSE, seen |-> -1, freed |-> FALSE, sync |-> FALSE,
     log |-> <<>>, failed |-> FALSE, overlap |-> FALSE, nocard |-> FALSE]

Alloc(c, type, value, cad_op) ==
    [c EXCEPT !.ops = Append(@, NewOperation(type, value, cad_op))]

\* the error: label of the intents: the handle is told FALSE and the record freed
intent_error_handle_forgotten(c, o) ==
    [c EXCEPT
        !.ops[o].freed = TRUE,
        !.ops[o].sync = TRUE]

intent_error(c, o) ==
    [c EXCEPT
        !.ops[o].success = FALSE,
        !.ops[o].calls = @ + 1,
        !.ops[o].seen = c.self.current_mode,
        !.ops[o].freed = TRUE,
        !.ops[o].sync = TRUE]

cad_pulse_select_mode_unmute_always(c, mode, cad_op) ==
    IF ~cad_op
    THEN c
    ELSE LET o == Len(c.ops) + 1
             c1 == Alloc(c, CAD_OPERATION_SELECT_MODE, mode, TRUE)
             c2 == Send(Alloc(c1, "none", 0, FALSE), "get_source_info_by_index",
                        c.self.source_id, NULL, 0, "set_mic_mute", o + 1)
         IN  IF c.self.has_voice_profile
             THEN Send(c2, "get_card_info_by_index", c.self.card_id, NULL, 0,
                       "set_card_profile", o)
             ELSE IF c.self.sink_id < 0
                  THEN intent_error(c2, o)
                  ELSE Send(c2, "get_sink_info_by_index", c.self.sink_id, NULL, 0,
                            "set_output_port", o)

cad_pulse_select_mode(c, mode, cad_op) ==
    IF ~cad_op
    THEN c
    ELSE LET o == Len(c.ops) + 1
             c1 == Alloc(c, CAD_OPERATION_SELECT_MODE, mode, TRUE)
             c2 == IF mode # CALL_AUDIO_MODE_CALL
                   THEN Send(Alloc(c1, "none", 0, FALSE), "get_source_info_by_index",
                             c.self.source_id, NULL, 0, "set_mic_mute", o + 1)
                   ELSE c1
         IN  IF c.self.has_voice_profile
             THEN Send(c2, "get_card_info_by_index", c.self.card_id, NULL, 0,
                       "set_card_profile", o)
             ELSE IF c.self.sink_id < 0
                  THEN intent_error(c2, o)
                  ELSE Send(c2, "get_sink_info_by_index", c.self.sink_id, NULL, 0,
                            "set_output_port", o)

cad_pulse_enable_speaker(c, enable, cad_op) ==
    IF ~cad_op
    THEN c
    ELSE LET o == Len(c.ops) + 1
             c1 == Alloc(c, CAD_OPERATION_ENABLE_SPEAKER, enable, TRUE)
         IN  IF c.self.sink_id < 0
             THEN intent_error(c1, o)
             ELSE Send(c1, "get_sink_info_by_index", c.self.sink_id, NULL, 0,
                       "set_output_port", o)

cad_pulse_mute_mic(c, mute, cad_op) ==
    IF ~cad_op
    THEN c
    ELSE LET o == Len(c.ops) + 1
             c1 == Alloc(c, CAD_OPERATION_MUTE_MIC, mute, TRUE)
         IN  IF c.self.source_id < 0
             THEN intent_error(c1, o)
             ELSE Send(c1, "get_source_info_by_index", c.self.source_id, NULL, 0,
                       "set_mic_mute", o)

(***************************************************************************)
(* The server's answers.  A request naming an index or a name the server   *)
(* does not have is answered with an error: eol < 0 and no info for an     *)
(* info request, success = 0 for a mutation.                               *)
(***************************************************************************)
InfoRequests ==
    {"get_card_info_by_index", "get_sink_info_by_index", "get_source_info_by_index"}

ListRequests ==
    {"get_card_info_list", "get_module_info_list", "get_sink_info_list",
     "get_source_info_list"}

\* the items an info or list request is answered with
server_items(s, r) ==
    CASE r.k = "get_card_info_list" -> card_infos(s)
      [] r.k = "get_module_info_list" -> Modules
      [] r.k = "get_sink_info_list" -> sink_infos(s)
      [] r.k = "get_source_info_list" -> IF s.sourceUp THEN <<source_info(s)>> ELSE <<>>
      [] r.k = "get_card_info_by_index" ->
            SelectSeq(card_infos(s), LAMBDA info : info.index = r.idx)
      [] r.k = "get_sink_info_by_index" ->
            SelectSeq(sink_infos(s), LAMBDA info : info.index = r.idx)
      [] r.k = "get_source_info_by_index" ->
            IF s.sourceUp /\ r.idx = s.sourceIdx THEN <<source_info(s)>> ELSE <<>>
      [] OTHER -> <<>>

\* whether the server carries a mutation out
server_ok(s, r) ==
    CASE r.k = "set_card_profile_by_index" ->
            \E info \in Range(card_infos(s)) :
                info.index = r.idx /\ r.arg \in Range(info.profiles)
      [] r.k = "set_sink_port_by_index" ->
            \E info \in Range(sink_infos(s)) :
                info.index = r.idx /\ r.arg \in PortNames(info.ports)
      [] r.k = "set_source_port_by_index" ->
            s.sourceUp /\ r.idx = s.sourceIdx
            /\ r.arg \in PortNames(SourcePortsOf(s.sourceDroid, s.headset))
      [] r.k = "set_source_mute_by_index" -> s.sourceUp /\ r.idx = s.sourceIdx
      [] r.k = "unload_module" -> \E i \in 1..Len(Modules) : Modules[i].index = r.idx
      [] OTHER -> TRUE

\* the other cards, the one with index idx on profile p
with_profile(ds, idx, p) ==
    [i \in DOMAIN ds |-> IF ds[i].index = idx THEN [ds[i] EXCEPT !.active = p] ELSE ds[i]]

server_apply(s, r) ==
    IF ~server_ok(s, r)
    THEN s
    ELSE CASE r.k = "set_card_profile_by_index" ->
                IF r.idx = CardIdx
                THEN [s EXCEPT !.profile = r.arg]
                ELSE [s EXCEPT !.before = with_profile(@, r.idx, r.arg),
                               !.after = with_profile(@, r.idx, r.arg)]
           [] r.k = "set_sink_port_by_index" ->
                IF r.idx = SecondSinkIdx
                THEN [s EXCEPT !.sink2Port = r.arg]
                ELSE [s EXCEPT !.sinkPort = r.arg]
           [] r.k = "set_source_port_by_index" -> [s EXCEPT !.sourcePort = r.arg]
           [] r.k = "set_source_mute_by_index" -> [s EXCEPT !.mute = (r.val # 0)]
           [] r.k = "unload_module" -> [s EXCEPT !.unloaded = @ \cup {r.idx}]
           [] OTHER -> s

\* the callback registered with an info or list request
InfoCb(cb, c, info, eol, data) ==
    CASE cb = "init_card_info" -> init_card_info(c, info, eol)
      [] cb = "init_module_info" -> init_module_info(c, info, eol)
      [] cb = "init_sink_info" -> init_sink_info(c, info, eol)
      [] cb = "init_source_info" -> init_source_info(c, info, eol)
      [] cb = "change_sink_info" -> change_sink_info(c, info, eol)
      [] cb = "change_source_info" -> change_source_info(c, info, eol)
      [] cb = "set_card_profile" -> set_card_profile(c, info, eol, data)
      [] cb = "set_output_port" -> set_output_port(c, info, eol, data)
      [] cb = "set_input_port" -> set_input_port(c, info, eol, data)
      [] cb = "set_mic_mute" -> set_mic_mute(c, info, eol, data)
      [] OTHER -> c

\* the callback registered with a mutation
SuccessCb(cb, c, success, data) ==
    CASE cb = "operation_complete_cb" -> operation_complete_cb(c, success, data)
      [] cb = "droid_mode_change_complete_cb" ->
            droid_mode_change_complete_cb(c, success, data)
      [] cb = "droid_sink_parked_complete_cb" ->
            droid_sink_parked_complete_cb(c, success, data)
      [] cb = "droid_source_parked_complete_cb" ->
            droid_source_parked_complete_cb(c, success, data)
      [] cb = "droid_output_port_change_complete_cb" ->
            droid_output_port_change_complete_cb(c, success, data)
      [] OTHER -> c

\* one reply: the callback once per item, then once with the end-of-list marker
RECURSIVE deliver_list(_, _, _, _, _)
deliver_list(cb, c, items, i, data) ==
    IF ~c.alive
    THEN c
    ELSE IF i > Len(items)
         THEN InfoCb(cb, c, NoInfo, 1, data)
         ELSE deliver_list(cb, InfoCb(cb, c, items[i], 0, data), items, i + 1, data)

\* ops[data].failed keeps that a mutation requested for the operation failed
Refused(c, r) ==
    IF r.data \in DOMAIN c.ops THEN [c EXCEPT !.ops[r.data].failed = TRUE] ELSE c

deliver(c, s, r) ==
    IF r.k \in ListRequests
    THEN deliver_list(r.cb, c, server_items(s, r), 1, r.data)
    ELSE IF r.k \in InfoRequests
         THEN IF server_items(s, r) = <<>>
              THEN InfoCb(r.cb, c, NoInfo, -1, r.data)
              ELSE deliver_list(r.cb, c, server_items(s, r), 1, r.data)
         ELSE IF server_ok(s, r)
              THEN SuccessCb(r.cb, c, 1, r.data)
              ELSE SuccessCb(r.cb, Refused(c, r), 0, r.data)

(***************************************************************************)
(* History kept for the round trip SelectMode(Call); SelectMode(Default):  *)
(* rt.pre is the card's active profile when the first of the two was       *)
(* issued, rt.mid the active profile when the second was issued, rt.op the *)
(* intent the round trip waits for.                                        *)
(***************************************************************************)
NoProfileWork(q) ==
    \A i \in 1..Len(q) : q[i].cb \notin {"set_card_profile", "droid_mode_change_complete_cb"}

RoundTripAfter(rt, mode, o, s, q, os) ==
    IF rt.phase = "idle" /\ mode = CALL_AUDIO_MODE_CALL /\ NoProfileWork(q)
    THEN [phase |-> "call", pre |-> s.profile, mid |-> NULL, op |-> o]
    ELSE IF rt.phase = "idle"
         THEN rt
         ELSE IF rt.phase = "call" /\ os[rt.op].calls > 0 /\ mode = CALL_AUDIO_MODE_DEFAULT
              THEN [phase |-> "default", pre |-> rt.pre, mid |-> s.profile, op |-> o]
              ELSE [rt EXCEPT !.phase = "void"]

(***************************************************************************)
(* The state machine.                                                      *)
(***************************************************************************)
InitialSinkPort(droid) ==
    IF droid THEN DROID_OUTPUT_PORT_SPEAKER ELSE <<"[Out] ", "Speaker">>

InitialSourcePort(droid) ==
    IF droid THEN DROID_INPUT_PORT_BUILTIN_MIC ELSE <<"[In] ", "Mic">>

\* the object as g_object_new leaves it (zero-filled) and constructed() connects it
InitSelf ==
    [ctx |-> "connecting", card_id |-> 0, sink_id |-> 0, source_id |-> 0,
     sink_is_droid |-> FALSE, source_is_droid |-> FALSE, has_voice_profile |-> FALSE,
     speaker_port |-> NULL, sink_ports |-> NullTable, source_ports |-> NullTable,
     current_mode |-> CALL_AUDIO_MODE_DEFAULT]

InitServer(droid, voice, profile) ==
    [droid |-> droid, sourceDroid |-> droid, voice |-> voice, profile |-> profile,
     headset |-> PA_PORT_AVAILABLE_NO,
     cardUp |-> TRUE, before |-> <<>>, after |-> <<>>,
     sinkCard |-> CardIdx, sinkClass |-> SINK_CLASS,
     sourceCard |-> CardIdx, sourceClass |-> SINK_CLASS,
     sinkUp |-> TRUE, sourceUp |-> TRUE,
     sink2 |-> "none", sink2Port |-> NULL,
     sinkIdx |-> FirstSinkIdx, sourceIdx |-> FirstSourceIdx,
     sinkPort |-> InitialSinkPort(droid), sourcePort |-> InitialSourcePort(droid),
     mute |-> FALSE, unloaded |-> {}]

InitMon ==
    [uaf |-> FALSE, lastOk |-> -1, nev |-> 0, nfail |-> 0, ev |-> <<>>,
     rt |-> [phase |-> "idle", pre |-> NULL, mid |-> NULL, op |-> 0],
     first |-> [has_voice_profile |-> FALSE, sink_is_droid |-> FALSE, profile |-> NULL]]

SelOff ==
    [fn |-> "off", ports |-> <<>>, exclude |-> NULL, droid |-> FALSE,
     done |-> FALSE, result |-> NULL]

Init ==
    /\ self = InitSelf
    /\ alive = TRUE
    /\ \E droid \in BOOLEAN, voice \in BOOLEAN :
         \E profile \in Range(CardProfiles(droid, voice)) :
            srv = InitServer(droid, voice, profile)
    /\ queue = <<>>
    /\ ops = <<>>
    /\ mon = InitMon
    /\ sel = SelOff

Ctx(q, ub) ==
    [self |-> self, alive |-> alive, ops |-> ops, q |-> q, mon |-> mon, ub |-> ub]

Leave(c) ==
    /\ self' = c.self
    /\ alive' = c.alive
    /\ ops' = c.ops
    /\ queue' = c.q
    /\ mon' = c.mon

UBOutcomes == {"crash", "differ", "equal"}

\* the intent handler has returned: ops[o].overlap keeps whether an earlier
\* operation was still under way when o was issued
Issued(c) ==
    LET busy == \E o \in DOMAIN ops : ops[o].op /\ ops[o].calls = 0
    IN  [c EXCEPT
            !.ops = [o \in DOMAIN c.ops |->
                        IF o \in DOMAIN ops THEN c.ops[o]
                        ELSE [c.ops[o] EXCEPT !.overlap = busy]]]

NIntents == Cardinality({o \in DOMAIN ops : ops[o].type # "none"})

\* the context becomes ready: pulse_state_cb
PulseReady ==
    /\ alive
    /\ self.ctx = "connecting"
    /\ Leave(pulse_state_cb(Ctx(queue, "crash"), "READY"))
    /\ UNCHANGED <<srv, sel>>

\* the server answers the oldest request, and the reply runs its callback; the
\* outcomes of undefined behaviour are enumerated where the callback runs into it
Reply ==
    /\ alive
    /\ queue # <<>>
    /\ LET r == Head(queue)
           s == server_apply(srv, r)
           c == deliver(Ctx(Tail(queue), "crash"), srv, r)
       IN  /\ srv' = s
           /\ IF c.alive
              THEN Leave(c)
              ELSE \E ub \in UBOutcomes : Leave(deliver(Ctx(Tail(queue), ub), srv, r))
    /\ UNCHANGED sel

SelectMode ==
    /\ alive
    /\ self.ctx = "ready"
    /\ NIntents < MaxOps
    /\ \E mode \in {CALL_AUDIO_MODE_DEFAULT, CALL_AUDIO_MODE_CALL}, cad_op \in BOOLEAN :
          LET c == cad_pulse_select_mode(Ctx(queue, "crash"), mode, cad_op)
          IN  Leave([Issued(c) EXCEPT !.mon.rt =
                        IF cad_op
                        THEN RoundTripAfter(@, mode, Len(ops) + 1, srv, queue, ops)
                        ELSE @])
    /\ UNCHANGED <<srv, sel>>

EnableSpeaker ==
    /\ alive
    /\ self.ctx = "ready"
    /\ NIntents < MaxOps
    /\ \E enable \in {0, 1}, cad_op \in BOOLEAN :
          Leave(Issued(cad_pulse_enable_speaker(Ctx(queue, "crash"), enable, cad_op)))
    /\ UNCHANGED <<srv, sel>>

MuteMic ==
    /\ alive
    /\ self.ctx = "ready"
    /\ NIntents < MaxOps
    /\ \E mute \in {0, 1}, cad_op \in BOOLEAN :
          Leave(Issued(cad_pulse_mute_mic(Ctx(queue, "crash"), mute, cad_op)))
    /\ UNCHANGED <<srv, sel>>

\* the server's objects change and the subscription callback hears of it
Raise(s, facility, kind, idx) ==
    /\ srv' = s
    /\ Leave([changed_cb(Ctx(queue, "crash"), facility, kind, idx)
                 EXCEPT !.mon.nev = @ + 1, !.mon.ev = <<facility, kind, idx>>])
    /\ UNCHANGED sel

SinkRemoved ==
    /\ alive /\ self.ctx = "ready" /\ mon.nev < MaxEvents
    /\ srv.sinkUp
    /\ Raise([srv EXCEPT !.sinkUp = FALSE], "SINK", "REMOVE", srv.sinkIdx)

SinkAdded ==
    /\ alive /\ self.ctx = "ready" /\ mon.nev < MaxEvents
    /\ ~srv.sinkUp
    /\ Raise([srv EXCEPT !.sinkUp = TRUE, !.sinkIdx = @ + 1,
                         !.sinkPort = InitialSinkPort(srv.droid)],
             "SINK", "NEW", srv.sinkIdx + 1)

SourceRemoved ==
    /\ alive /\ self.ctx = "ready" /\ mon.nev < MaxEvents
    /\ srv.sourceUp
    /\ Raise([srv EXCEPT !.sourceUp = FALSE], "SOURCE", "REMOVE", srv.sourceIdx)

SourceAdded ==
    /\ alive /\ self.ctx = "ready" /\ mon.nev < MaxEvents
    /\ ~srv.sourceUp
    /\ Raise([srv EXCEPT !.sourceUp = TRUE, !.sourceIdx = @ + 1,
                         !.sourcePort = InitialSourcePort(srv.sourceDroid), !.mute = FALSE],
             "SOURCE", "NEW", srv.sourceIdx + 1)

\* a headset is plugged or unplugged: the card's ports change availability
CardChanged ==
    /\ alive /\ self.ctx = "ready" /\ mon.nev < MaxEvents
    /\ Raise([srv EXCEPT !.headset = IF @ = PA_PORT_AVAILABLE_NO
                                     THEN PA_PORT_AVAILABLE_YES
                                     ELSE PA_PORT_AVAILABLE_NO],
             "CARD", "CHANGE", CardIdx)

Next ==
    \/ PulseReady
    \/ Reply
    \/ SelectMode
    \/ EnableSpeaker
    \/ MuteMic
    \/ SinkRemoved
    \/ SourceRemoved

\* the intents against a server whose sink and source may disappear
Spec == Init /\ [][Next]_vars

\* one SelectMode on its own: mon.first keeps what held when it was issued
SelectModeAlone ==
    /\ alive
    /\ self.ctx = "ready"
    /\ ops = <<>>
    /\ \E mode \in {CALL_AUDIO_MODE_DEFAULT, CALL_AUDIO_MODE_CALL} :
          LET c == cad_pulse_select_mode(Ctx(queue, "crash"), mode, TRUE)
          IN  Leave([c EXCEPT !.mon.first =
                        [has_voice_profile |-> self.has_voice_profile,
                         sink_is_droid |-> self.sink_is_droid,
                         profile |-> srv.profile]])
    /\ UNCHANGED <<srv, sel>>

NextChain ==
    \/ PulseReady
    \/ Reply
    \/ SelectModeAlone

\* a single SelectMode chain, undisturbed, on every card
SpecChain == Init /\ [][NextChain]_vars

\* what the other cards of a server may look like: like the platform card,
\* without a bus path, without a form factor, on another bus, or a modem
OtherCardKinds ==
    { [bus_path |-> <<"platform-", "soc">>, form_factor |-> <<"internal">>,
       class |-> <<"sound">>],
      [bus_path |-> NULL, form_factor |-> <<"internal">>, class |-> <<"sound">>],
      [bus_path |-> <<"platform-", "soc">>, form_factor |-> NULL, class |-> NULL],
      [bus_path |-> <<"pci-", "usb">>, form_factor |-> <<"internal">>,
       class |-> <<"sound">>],
      [bus_path |-> <<"platform-", "soc">>, form_factor |-> <<"internal">>,
       class |-> <<"modem">>] }

OtherCard(kind, index, voice, droid) ==
    [index |-> index, bus_path |-> kind.bus_path, form_factor |-> kind.form_factor,
     class |-> kind.class, voice |-> voice,
     active |-> CardProfiles(droid, voice)[1]]

DeviceClasses == {SINK_CLASS, NULL, <<"abstract">>}

\* servers with or without the platform card; the sink and the source belong
\* to the platform card if it is there and to no card otherwise
InitCards ==
    /\ self = InitSelf
    /\ alive = TRUE
    /\ \E droid \in BOOLEAN, voice \in BOOLEAN, cardUp \in BOOLEAN :
          srv = [InitServer(droid, voice, CardProfiles(droid, voice)[1]) EXCEPT
                    !.cardUp = cardUp,
                    !.sinkCard = IF cardUp THEN CardIdx ELSE PA_INVALID_INDEX,
                    !.sourceCard = IF cardUp THEN CardIdx ELSE PA_INVALID_INDEX]
    /\ queue = <<>>
    /\ ops = <<>>
    /\ mon = InitMon
    /\ sel = SelOff

\* the server has one more card, listed before or after the platform card
AddCard ==
    /\ self.ctx = "connecting"
    /\ Len(srv.before) + Len(srv.after) < MaxCards
    /\ \E kind \in OtherCardKinds, voice \in BOOLEAN :
          LET d == OtherCard(kind, FirstOtherCardIdx + Len(srv.before) + Len(srv.after),
                             voice, srv.droid)
          IN  \/ srv' = [srv EXCEPT !.before = Append(@, d)]
              \/ srv' = [srv EXCEPT !.after = Append(@, d)]
    /\ UNCHANGED <<self, alive, queue, ops, mon, sel>>

\* the sink and the source belong to another of the server's cards or to none,
\* and carry another device class or none
Rehome ==
    /\ self.ctx = "connecting"
    /\ \E card \in {info.index : info \in Range(card_infos(srv))} \cup {PA_INVALID_INDEX},
          class \in DeviceClasses :
          /\ <<card, class>> # <<srv.sinkCard, srv.sinkClass>>
          /\ srv' = [srv EXCEPT !.sinkCard = card, !.sourceCard = card,
                                !.sinkClass = class, !.sourceClass = class]
    /\ UNCHANGED <<self, alive, queue, ops, mon, sel>>

NextCards ==
    \/ AddCard
    \/ Rehome
    \/ PulseReady
    \/ Reply

\* discovery over any list of cards
SpecCards == InitCards /\ [][NextCards]_vars

\* servers that start with or without the sink and the source, with or without
\* a second sink, with or without a headset plugged, and with a source whose
\* device API is the sink's or the other one
InitEvents ==
    /\ self = InitSelf
    /\ alive = TRUE
    /\ \E droid \in BOOLEAN, voice \in BOOLEAN, sinkUp \in BOOLEAN, sourceUp \in BOOLEAN,
          headset \in {PA_PORT_AVAILABLE_NO, PA_PORT_AVAILABLE_YES},
          sink2 \in {"none", "hdmi", "stereo"}, sourceDroid \in BOOLEAN :
          srv = [InitServer(droid, voice, CardProfiles(droid, voice)[1]) EXCEPT
                    !.sinkUp = sinkUp, !.sourceUp = sourceUp, !.headset = headset,
                    !.sourceDroid = sourceDroid,
                    !.sourcePort = InitialSourcePort(sourceDroid),
                    !.sink2 = sink2,
                    !.sink2Port = IF sink2 = "none" THEN NULL
                                  ELSE SecondSinkPortsOf(sink2, droid)[1].name]
    /\ queue = <<>>
    /\ ops = <<>>
    /\ mon = InitMon
    /\ sel = SelOff

\* the card changes in a way that leaves the ports' availability as it is
CardNotified ==
    /\ alive /\ self.ctx = "ready" /\ mon.nev < MaxEvents
    /\ srv.cardUp
    /\ Raise(srv, "CARD", "CHANGE", CardIdx)

\* the card, by now without sink and source, goes away
CardRemoved ==
    /\ alive /\ self.ctx = "ready" /\ mon.nev < MaxEvents
    /\ srv.cardUp /\ ~srv.sinkUp /\ ~srv.sourceUp /\ srv.sink2 = "none"
    /\ Raise([srv EXCEPT !.cardUp = FALSE], "CARD", "REMOVE", CardIdx)

SecondSinkRemoved ==
    /\ alive /\ self.ctx = "ready" /\ mon.nev < MaxEvents
    /\ srv.sink2 # "none"
    /\ Raise([srv EXCEPT !.sink2 = "none", !.sink2Port = NULL],
             "SINK", "REMOVE", SecondSinkIdx)

SecondSinkAdded ==
    /\ alive /\ self.ctx = "ready" /\ mon.nev < MaxEvents
    /\ srv.sink2 = "none"
    /\ \E sink2 \in {"hdmi", "stereo"} :
          Raise([srv EXCEPT !.sink2 = sink2,
                            !.sink2Port = SecondSinkPortsOf(sink2, srv.droid)[1].name],
                "SINK", "NEW", SecondSinkIdx)

NextEvents ==
    \/ PulseReady
    \/ Reply
    \/ SinkRemoved
    \/ SinkAdded
    \/ SourceRemoved
    \/ SourceAdded
    \/ SecondSinkRemoved
    \/ SecondSinkAdded
    \/ CardChanged
    \/ CardNotified
    \/ CardRemoved

\* discovery and the subscription events, without intents
SpecEvents == InitEvents /\ [][NextEvents]_vars

\* the servers a new connection may find: the platform card may be gone, the
\* sink may be gone or have a new index; without the platform card the sink
\* and the source belong to no card
Restarted(s) ==
    { [InitServer(s.droid, s.voice, CardProfiles(s.droid, s.voice)[1]) EXCEPT
          !.cardUp = cardUp,
          !.sinkCard = IF cardUp THEN CardIdx ELSE PA_INVALID_INDEX,
          !.sourceCard = IF cardUp THEN CardIdx ELSE PA_INVALID_INDEX,
          !.sinkUp = sinkUp,
          !.sinkIdx = sinkIdx,
          !.sourceIdx = sinkIdx + 1] :
        cardUp \in BOOLEAN, sinkUp \in BOOLEAN, sinkIdx \in {s.sinkIdx, s.sinkIdx + 2} }

\* the connection fails: pulse_state_cb (PA_CONTEXT_FAILED)
ContextFailed ==
    /\ alive
    /\ self.ctx = "ready"
    /\ mon.nfail < MaxFail
    /\ srv' \in Restarted(srv)
    /\ Leave([pulse_state_cb(Ctx(queue, "crash"), "FAILED") EXCEPT !.mon.nfail = @ + 1])
    /\ UNCHANGED sel

\* the intent handler has returned: ops[o].nocard keeps whether a card was
\* tracked when o was issued
IssuedCardless(c) ==
    [c EXCEPT
        !.ops = [o \in DOMAIN c.ops |->
                    IF o \in DOMAIN ops THEN c.ops[o]
                    ELSE [c.ops[o] EXCEPT !.nocard = (self.card_id < 0)]]]

\* any of the three intents
Intent ==
    /\ alive
    /\ self.ctx = "ready"
    /\ NIntents < MaxIntents
    /\ \/ \E mode \in {CALL_AUDIO_MODE_DEFAULT, CALL_AUDIO_MODE_CALL} :
             Leave(IssuedCardless(cad_pulse_select_mode(Ctx(queue, "crash"), mode, TRUE)))
       \/ \E enable \in {0, 1} :
             Leave(IssuedCardless(cad_pulse_enable_speaker(Ctx(queue, "crash"), enable,
                                                          TRUE)))
       \/ \E mute \in {0, 1} :
             Leave(IssuedCardless(cad_pulse_mute_mic(Ctx(queue, "crash"), mute, TRUE)))
    /\ UNCHANGED <<srv, sel>>

NextReconnect ==
    \/ PulseReady
    \/ Reply
    \/ ContextFailed
    \/ Intent

\* connections that fail and are made again
SpecReconnect == Init /\ [][NextReconnect]_vars

\* servers whose platform card has its sink, a second sink without a loudspeaker
\* port, or both
InitOutputs ==
    /\ self = InitSelf
    /\ alive = TRUE
    /\ \E droid \in BOOLEAN, voice \in BOOLEAN, sinkUp \in BOOLEAN, sink2 \in {"none", "hdmi"} :
          srv = [InitServer(droid, voice, CardProfiles(droid, voice)[1]) EXCEPT
                    !.sinkUp = sinkUp,
                    !.sink2 = sink2,
                    !.sink2Port = IF sink2 = "none" THEN NULL
                                  ELSE SecondSinkPortsOf(sink2, droid)[1].name]
    /\ queue = <<>>
    /\ ops = <<>>
    /\ mon = InitMon
    /\ sel = SelOff

NextOutputs ==
    \/ PulseReady
    \/ Reply
    \/ SelectMode
    \/ EnableSpeaker

\* intents that route the output of whichever sink is tracked
SpecOutputs == InitOutputs /\ [][NextOutputs]_vars

\* the same servers, with or without a headset plugged
InitHeadset ==
    /\ self = InitSelf
    /\ alive = TRUE
    /\ \E droid \in BOOLEAN, voice \in BOOLEAN, headset \in {PA_PORT_AVAILABLE_NO,
                                                             PA_PORT_AVAILABLE_YES} :
         \E profile \in Range(CardProfiles(droid, voice)) :
            srv = [InitServer(droid, voice, profile) EXCEPT !.headset = headset]
    /\ queue = <<>>
    /\ ops = <<>>
    /\ mon = InitMon
    /\ sel = SelOff

\* EnableSpeaker(true), (false), (true), ...: each once the one before has
\* completed, on a tracked sink that has a speaker port
EnableSpeakerInTurn ==
    /\ alive
    /\ self.ctx = "ready"
    /\ self.sink_id >= 0 /\ self.speaker_port # NULL
    /\ Len(ops) < MaxToggles
    /\ \A o \in DOMAIN ops : ops[o].calls > 0
    /\ Leave(cad_pulse_enable_speaker(Ctx(queue, "crash"),
                                      IF Len(ops) % 2 = 0 THEN 1 ELSE 0, TRUE))
    /\ UNCHANGED <<srv, sel>>

NextSpeaker ==
    \/ PulseReady
    \/ Reply
    \/ EnableSpeakerInTurn

SpecSpeaker == InitHeadset /\ [][NextSpeaker]_vars

NextTopology ==
    \/ Next
    \/ SinkAdded
    \/ SourceAdded
    \/ CardChanged

\* the same with sinks and sources that come back and a headset plugged and unplugged
SpecTopology == Init /\ [][NextTopology]_vars

(***************************************************************************)
(* The port selectors on their own: every list of at most MaxPorts ports   *)
(* with distinct names, every exclusion, both flavors.                     *)
(***************************************************************************)
SinkPortNames ==
    {DROID_OUTPUT_PORT_PARKING, DROID_OUTPUT_PORT_SPEAKER, DROID_OUTPUT_PORT_EARPIECE,
     DROID_OUTPUT_PORT_WIRED_HEADSET}

SourcePortNames ==
    {DROID_INPUT_PORT_PARKING, DROID_INPUT_PORT_BUILTIN_MIC,
     DROID_INPUT_PORT_WIRED_HEADSET_MIC}

SelNames(fn) == IF fn = "sink" THEN SinkPortNames ELSE SourcePortNames

Availabilities ==
    {PA_PORT_AVAILABLE_UNKNOWN, PA_PORT_AVAILABLE_NO, PA_PORT_AVAILABLE_YES}

SelInputs(fn) ==
    {[fn |-> fn, ports |-> <<>>, exclude |-> e, droid |-> d, done |-> FALSE, result |-> NULL] :
        e \in SelNames(fn) \cup {NULL}, d \in BOOLEAN}

InitSel ==
    /\ self = InitSelf
    /\ alive = TRUE
    /\ srv = InitServer(FALSE, FALSE, SND_USE_CASE_VERB_HIFI)
    /\ queue = <<>>
    /\ ops = <<>>
    /\ mon = InitMon
    /\ sel \in SelInputs("sink") \cup SelInputs("source")

\* the server's sink or source has one more port
AddPort ==
    /\ sel.fn # "off" /\ ~sel.done
    /\ Len(sel.ports) < MaxPorts
    /\ \E name \in SelNames(sel.fn) \ PortNames(sel.ports),
          available \in Availabilities, priority \in 0..MaxPrio :
          sel' = [sel EXCEPT !.ports = Append(@, Port(name, available, priority))]
    /\ UNCHANGED <<self, alive, srv, queue, ops, mon>>

SelectSinkPort ==
    /\ sel.fn = "sink" /\ ~sel.done
    /\ sel' = [sel EXCEPT !.done = TRUE,
                          !.result = get_available_sink_port(sel, sel.exclude, sel.droid)]
    /\ UNCHANGED <<self, alive, srv, queue, ops, mon>>

SelectSourcePort ==
    /\ sel.fn = "source" /\ ~sel.done
    /\ sel' = [sel EXCEPT !.done = TRUE,
                          !.result = get_available_source_port(sel, sel.exclude, sel.droid)]
    /\ UNCHANGED <<self, alive, srv, queue, ops, mon>>

NextSel ==
    \/ AddPort
    \/ SelectSinkPort
    \/ SelectSourcePort

SpecSel == InitSel /\ [][NextSel]_vars

(***************************************************************************)
(* Properties of the operation life cycle, checked under Spec.             *)
(***************************************************************************)
Handled(o) == ops[o].op /\ ops[o].calls > 0

Pending(o) == ops[o].op /\ ops[o].calls = 0

\* C1: the completion handle of an operation is invoked at most once (never for
\* a record allocated without one) and no callback reads an operation record
\* after it was finalized and freed.
C1_HandleAtMostOnceNoUseAfterFree ==
    /\ ~mon.uaf
    /\ \A o \in DOMAIN ops : ops[o].calls <= 1 /\ (~ops[o].op => ops[o].calls = 0)

\* a Droid SelectMode(Call) went through the whole chain (profile, parking,
\* output, input), was finalized with success, and every reply has been delivered
C1_Witness ==
    /\ queue = <<>>
    /\ srv.droid /\ srv.profile = DROID_PROFILE_VOICECALL
    /\ \E o \in DOMAIN ops :
          /\ ops[o].type = CAD_OPERATION_SELECT_MODE /\ ops[o].value = CALL_AUDIO_MODE_CALL
          /\ Handled(o) /\ ops[o].success /\ ops[o].freed /\ ~ops[o].sync

\* C2 (as claimed): an operation that has not been finalized always has a request
\* outstanding that carries it, so answering every request finalizes it.
C2_PendingOperationHasRequest ==
    alive => \A o \in DOMAIN ops :
                Pending(o) => \E i \in 1..Len(queue) : queue[i].data = o

\* C3 (as claimed): when the handle of a successful SelectMode(m) is invoked,
\* current_mode is already m.
C3_ModeSetWhenHandleInvoked ==
    \A o \in DOMAIN ops :
        (ops[o].type = CAD_OPERATION_SELECT_MODE /\ Handled(o) /\ ops[o].success)
            => ops[o].seen = ops[o].value

\* C3 (amended): once the finalization of a successful SelectMode(m) has
\* returned, current_mode is m, and it stays m until another SelectMode is
\* finalized with success.
C3_ModeIsLastSuccessfulSelect ==
    mon.lastOk # -1 => self.current_mode = mon.lastOk

\* SelectMode(Call) succeeded: its handle saw the old mode, current_mode is Call now
C3_Witness ==
    /\ mon.lastOk = CALL_AUDIO_MODE_CALL
    /\ self.current_mode = CALL_AUDIO_MODE_CALL
    /\ \E o \in DOMAIN ops :
          /\ ops[o].type = CAD_OPERATION_SELECT_MODE /\ ops[o].value = CALL_AUDIO_MODE_CALL
          /\ Handled(o) /\ ops[o].success /\ ops[o].seen = CALL_AUDIO_MODE_DEFAULT

\* C4: every step that changes current_mode is the finalization of a SelectMode
\* operation with success, and sets it to the mode that operation asked for.
C4_ModeChangesOnlyOnSuccessfulSelect ==
    [][self'.current_mode # self.current_mode =>
          \E o \in DOMAIN ops :
              /\ ops[o].type = CAD_OPERATION_SELECT_MODE
              /\ ops[o].calls = 0 /\ ops'[o].calls = 1 /\ ops'[o].success
              /\ self'.current_mode = ops[o].value]_vars

\* a SelectMode(Call) failed on a server reply and an EnableSpeaker or MuteMic
\* succeeded, and the mode is still Default
C4_Witness ==
    /\ self.current_mode = CALL_AUDIO_MODE_DEFAULT
    /\ \E o \in DOMAIN ops :
          /\ ops[o].type = CAD_OPERATION_SELECT_MODE /\ ops[o].value = CALL_AUDIO_MODE_CALL
          /\ Handled(o) /\ ~ops[o].success /\ ~ops[o].sync
    /\ \E o \in DOMAIN ops :
          /\ ops[o].type # CAD_OPERATION_SELECT_MODE /\ ops[o].value = 1
          /\ Handled(o) /\ ops[o].success

DiscoveryDone ==
    /\ self.ctx = "ready"
    /\ \A i \in 1..Len(queue) : queue[i].k \notin ListRequests \cup {"unload_module"}

\* C9 (as claimed): on the Native back-end the module-switch-on-port-available
\* module the server lists has been unloaded once discovery is over.
C9_NativeUnloadsSwitchModule ==
    (DiscoveryDone /\ ~srv.droid) => SwitchModuleIdx \in srv.unloaded

VoiceCallProfiles == {DROID_PROFILE_VOICECALL, SND_USE_CASE_VERB_VOICECALL}

RoundTripDone ==
    mon.rt.phase = "default" /\ ops[mon.rt.op].calls > 0

Candidates ==
    {i \in 1..Len(sel.ports) :
        /\ sel.ports[i].name # sel.exclude
        /\ sel.ports[i].available # PA_PORT_AVAILABLE_NO}

CandidateNamed(name) ==
    \E i \in Candidates : sel.ports[i].name = name

\* C5: a selector returns no port, or the name of a port of the list that is
\* not unavailable and whose name differs from exclude.
C5_ResultIsCandidate ==
    sel.done => (sel.result = NULL \/ CandidateNamed(sel.result))

\* a port was returned from a list holding an unavailable port and the excluded one
C5_Witness ==
    /\ sel.done /\ sel.result # NULL
    /\ \E i \in 1..Len(sel.ports) : sel.ports[i].available = PA_PORT_AVAILABLE_NO
    /\ \E i \in 1..Len(sel.ports) :
          sel.ports[i].name = sel.exclude /\ sel.ports[i].available # PA_PORT_AVAILABLE_NO

\* C6: on the Native flavor a selector returns the candidate of highest
\* priority, the earliest in list order among equals, and none if there is none.
C6_NativeHighestPriorityEarliest ==
    (sel.done /\ ~sel.droid) =>
        IF Candidates = {}
        THEN sel.result = NULL
        ELSE \E i \in Candidates :
                /\ sel.result = sel.ports[i].name
                /\ \A j \in Candidates :
                      \/ sel.ports[j].priority < sel.ports[i].priority
                      \/ sel.ports[j].priority = sel.ports[i].priority /\ i <= j

\* two candidates tie on the highest priority and the earlier one was returned
C6_Witness ==
    /\ sel.done /\ ~sel.droid
    /\ \E i, j \in Candidates :
          /\ i < j
          /\ sel.ports[i].priority = sel.ports[j].priority
          /\ \A k \in Candidates : sel.ports[k].priority <= sel.ports[i].priority
          /\ sel.result = sel.ports[i].name

\* C7 (as claimed): on the Droid flavor the output selector returns the wired
\* headset if it is a candidate, else the speaker if it is, else the earpiece if
\* it is, else none, whatever the order of the list.
C7_DroidOutputPreference ==
    (sel.done /\ sel.droid /\ sel.fn = "sink") =>
        sel.result =
            IF CandidateNamed(DROID_OUTPUT_PORT_WIRED_HEADSET)
            THEN DROID_OUTPUT_PORT_WIRED_HEADSET
            ELSE IF CandidateNamed(DROID_OUTPUT_PORT_SPEAKER)
                 THEN DROID_OUTPUT_PORT_SPEAKER
                 ELSE IF CandidateNamed(DROID_OUTPUT_PORT_EARPIECE)
                      THEN DROID_OUTPUT_PORT_EARPIECE
                      ELSE NULL

\* C8: on the Droid flavor the input selector returns the wired headset
\* microphone if it is a candidate, else the built-in microphone if it is, else
\* none.
C8_DroidInputPreference ==
    (sel.done /\ sel.droid /\ sel.fn = "source") =>
        sel.result =
            IF CandidateNamed(DROID_INPUT_PORT_WIRED_HEADSET_MIC)
            THEN DROID_INPUT_PORT_WIRED_HEADSET_MIC
            ELSE IF CandidateNamed(DROID_INPUT_PORT_BUILTIN_MIC)
                 THEN DROID_INPUT_PORT_BUILTIN_MIC
                 ELSE NULL

\* the headset microphone was returned although the built-in one follows it
C8_Witness ==
    /\ sel.done /\ sel.droid /\ sel.fn = "source"
    /\ sel.result = DROID_INPUT_PORT_WIRED_HEADSET_MIC
    /\ \E i, j \in Candidates :
          /\ i < j
          /\ sel.ports[i].name = DROID_INPUT_PORT_WIRED_HEADSET_MIC
          /\ sel.ports[j].name = DROID_INPUT_PORT_BUILTIN_MIC

(***************************************************************************)
(* Properties of the speaker toggle, checked under SpecSpeaker.            *)
(***************************************************************************)
SinkPortRequests(o) ==
    {i \in 1..Len(ops[o].log) : ops[o].log[i][1] = "set_sink_port_by_index"}

\* C11: EnableSpeaker(true) requests the cached speaker port verbatim,
\* EnableSpeaker(false) requests the selector's result with the speaker port
\* excluded, and once EnableSpeaker(true), (false), (true) have each completed
\* the sink's active port is the cached speaker port.
C11_SpeakerOnOffOn ==
    /\ \A o \in DOMAIN ops : \A i \in SinkPortRequests(o) :
          ops[o].log[i][2] =
              IF ops[o].value = 1
              THEN self.speaker_port
              ELSE get_available_sink_port(sink_info(srv), self.speaker_port, srv.droid)
    /\ (Len(ops) % 2 = 1 /\ queue = <<>> /\ \A o \in DOMAIN ops : Handled(o))
          => (self.speaker_port # NULL /\ srv.sinkPort = self.speaker_port)

\* the three intents completed with success, the second one moved the sink off
\* the speaker port and the third one moved it back
C11_Witness ==
    /\ Len(ops) = 3 /\ queue = <<>>
    /\ \A o \in DOMAIN ops : Handled(o) /\ ops[o].success
    /\ SinkPortRequests(2) # {} /\ SinkPortRequests(3) # {}
    /\ srv.sinkPort = self.speaker_port

(***************************************************************************)
(* Properties of the intents, checked under Spec.                          *)
(***************************************************************************)
Requests(o, k) == {i \in 1..Len(ops[o].log) : ops[o].log[i][1] = k}

\* two MuteMic(true) intents and nothing else, each with a source tracked when
\* it was issued, against a server whose objects stay as they are
TwoMuteMic ==
    /\ Len(ops) = 2
    /\ mon.nev = 0
    /\ \A o \in {1, 2} : /\ ops[o].type = CAD_OPERATION_MUTE_MIC
                         /\ ops[o].value = 1
                         /\ ops[o].op
                         /\ ~ops[o].sync

SetMuteRequests ==
    Cardinality(Requests(1, "set_source_mute_by_index"))
        + Cardinality(Requests(2, "set_source_mute_by_index"))

\* C12 (as stated): two MuteMic(true) intents on an unmuted source produce
\* exactly one set-source-mute request in total and both succeed, also when
\* the second is issued before the first has completed.
C12_ExactlyOneSetMute ==
    (TwoMuteMic /\ Handled(1) /\ Handled(2))
        => (SetMuteRequests = 1 /\ ops[1].success /\ ops[2].success)

\* C12 (amended): both intents complete with success; they produce exactly
\* one set-source-mute request when the second is issued after the first has
\* completed, and at most one each when the second is issued earlier.
C12_OneSetMuteUnlessOverlapping ==
    TwoMuteMic
        => /\ Cardinality(Requests(1, "set_source_mute_by_index")) <= 1
           /\ Cardinality(Requests(2, "set_source_mute_by_index")) <= 1
           /\ ~ops[2].overlap => SetMuteRequests <= 1
           /\ queue = <<>> => (Handled(1) /\ Handled(2))
           /\ (Handled(1) /\ Handled(2))
                 => /\ ops[1].success /\ ops[2].success
                    /\ SetMuteRequests >= 1
                    /\ srv.mute

\* the second intent was issued after the first had completed: one request
C12_Witness ==
    /\ TwoMuteMic /\ Handled(1) /\ Handled(2)
    /\ ~ops[2].overlap
    /\ SetMuteRequests = 1
    /\ ops[1].success /\ ops[2].success

\* the second intent was issued before the first had completed: two requests
C12_OverlapWitness ==
    /\ TwoMuteMic /\ Handled(1) /\ Handled(2)
    /\ ops[2].overlap
    /\ SetMuteRequests = 2

(***************************************************************************)
(* Properties of one undisturbed SelectMode chain, checked under SpecChain. *)
(***************************************************************************)
Mutating == {"set_card_profile_by_index", "set_sink_port_by_index",
             "set_source_port_by_index", "set_source_mute_by_index"}

\* the mutating requests sent for operation o, in the order they were sent
Mutations(o) == SelectSeq(ops[o].log, LAMBDA e : e[1] \in Mutating)

Outstanding(o) == {i \in DOMAIN queue : queue[i].data = o}

\* SelectMode(Call) issued on a Droid card that has a voice profile while the
\* card's active profile is the default one
DroidCallChain ==
    /\ Len(ops) >= 1
    /\ ops[1].type = CAD_OPERATION_SELECT_MODE
    /\ ops[1].value = CALL_AUDIO_MODE_CALL
    /\ srv.droid
    /\ mon.first.has_voice_profile
    /\ mon.first.profile = DROID_PROFILE_HIFI

DroidCallMutations ==
    << <<"set_card_profile_by_index", DROID_PROFILE_VOICECALL>>,
       <<"set_sink_port_by_index", DROID_OUTPUT_PORT_PARKING>>,
       <<"set_source_port_by_index", DROID_INPUT_PORT_PARKING>>,
       <<"set_sink_port_by_index",
         get_available_sink_port(sink_info(srv), self.speaker_port, TRUE)>>,
       <<"set_source_port_by_index",
         get_available_source_port(source_info(srv), NULL, TRUE)>> >>

\* C13: on a Droid card with a voice profile whose active profile is the
\* default one, SelectMode(Call) sends set card profile voicecall, set sink
\* port output-parking, set source port input-parking, set sink port to the
\* output target and set source port to the input target, in this order and
\* each only once the one before has completed; only after the last one has
\* completed is the handle invoked, with success, and current_mode set to Call.
C13_DroidCallSequence ==
    DroidCallChain
        => /\ Len(Mutations(1)) <= Len(DroidCallMutations)
           /\ Mutations(1) = SubSeq(DroidCallMutations, 1, Len(Mutations(1)))
           /\ Cardinality(Outstanding(1)) <= 1
           /\ DroidCallMutations[4][2] \notin {NULL, DROID_OUTPUT_PORT_PARKING}
           /\ DroidCallMutations[5][2] \notin {NULL, DROID_INPUT_PORT_PARKING}
           /\ Handled(1) <=> self.current_mode = CALL_AUDIO_MODE_CALL
           /\ Handled(1) => /\ Mutations(1) = DroidCallMutations
                            /\ Outstanding(1) = {}
                            /\ ops[1].calls = 1
                            /\ ops[1].success
           /\ queue = <<>> => Handled(1)

\* the chain has run to its end and the server is in the state it asked for
C13_Witness ==
    /\ DroidCallChain
    /\ Handled(1) /\ ops[1].success
    /\ Mutations(1) = DroidCallMutations
    /\ self.current_mode = CALL_AUDIO_MODE_CALL
    /\ srv.profile = DROID_PROFILE_VOICECALL
    /\ srv.sinkPort = DROID_OUTPUT_PORT_EARPIECE
    /\ srv.sourcePort = DROID_INPUT_PORT_BUILTIN_MIC

(***************************************************************************)
(* Claims about the Native chains and about failed requests, under Spec.   *)
(***************************************************************************)
\* C14 (as claimed): on the Native back-end an operation that sends a
\* set-sink-port request fetches no source info and sends no set-source-port
\* request, and a SelectMode that sends set-card-profile sends it once and
\* sends no port request.
C14_NativeStopsAtSinkPort ==
    ~srv.droid
        => \A o \in DOMAIN ops :
              /\ Requests(o, "set_sink_port_by_index") # {}
                    => /\ Requests(o, "get_source_info_by_index") = {}
                       /\ Requests(o, "set_source_port_by_index") = {}
              /\ Requests(o, "set_card_profile_by_index") # {}
                    => /\ Cardinality(Requests(o, "set_card_profile_by_index")) = 1
                       /\ Requests(o, "set_sink_port_by_index") = {}
                       /\ Requests(o, "set_source_port_by_index") = {}

\* C15 (as claimed): an operation one of whose requests completed with
\* success = false has its handle invoked with success = false.
C15_FailedRequestFailsOperation ==
    \A o \in DOMAIN ops :
        (Handled(o) /\ ops[o].failed) => ~ops[o].success

\* the operation an intent allocates in this step lacks what it requires
Unserviceable(o) ==
    LET t == ops'[o].type
    IN  \/ t = CAD_OPERATION_ENABLE_SPEAKER /\ self.sink_id < 0
        \/ t = CAD_OPERATION_MUTE_MIC /\ self.source_id < 0
        \/ t = CAD_OPERATION_SELECT_MODE /\ ~self.has_voice_profile /\ self.sink_id < 0

C18_TrackedDevicesBelongToTrackedCard ==
    self.ctx = "ready"
        => /\ self.sink_id >= 0
                 => /\ self.card_id >= 0
                    /\ self.sink_id = srv.sinkIdx
                    /\ srv.sinkCard = self.card_id
           /\ self.source_id >= 0
                 => /\ self.card_id >= 0
                    /\ self.source_id = srv.sourceIdx
                    /\ srv.sourceCard = self.card_id

\* the filter of the card discovery as the claim states it
Qualifies(info) ==
    /\ info.bus_path # NULL /\ g_str_has_prefix(info.bus_path, CARD_BUS_PATH_PREFIX)
    /\ info.form_factor # NULL /\ info.form_factor = CARD_FORM_FACTOR
    /\ info.class # CARD_MODEM_CLASS

FirstQualifying(infos) ==
    IF \E i \in DOMAIN infos : Qualifies(infos[i])
    THEN infos[CHOOSE i \in DOMAIN infos :
                  /\ Qualifies(infos[i])
                  /\ \A j \in 1..(i - 1) : ~Qualifies(infos[j])].index
    ELSE -1

\* C19 (as claimed): after discovery the tracked card is the first card of the
\* server's list with a bus path starting with platform-, form factor internal
\* and a class other than modem, and no card is tracked if there is none.
C19_FirstQualifyingCardTracked ==
    DiscoveryDone => self.card_id = FirstQualifying(card_infos(srv))

(***************************************************************************)
(* Claims about reconnection, under SpecReconnect.                         *)
(***************************************************************************)
\* C17 (as claimed): an intent issued while no card is tracked completes
\* with success = false.
C17_NoCardIntentFails ==
    \A o \in DOMAIN ops :
        (ops[o].nocard /\ Handled(o)) => ~ops[o].success

DiscoveryRequests ==
    <<"get_card_info_list", "get_module_info_list", "get_sink_info_list",
      "get_source_info_list">>

\* C20: when the context fails it is torn down, nothing of it stays
\* outstanding and the reconnect is under way; when the new context is ready
\* the tracked indices are reset to absent and the cards, modules, sinks and
\* sources are listed in this order; once that discovery is over every tracked
\* index is one of the new enumeration, none is left from the connection
\* before.
C20_ReconnectRediscovers ==
    /\ [][/\ (self.ctx = "ready" /\ self'.ctx = "connecting") => queue' = <<>>
          /\ (self.ctx = "connecting" /\ self'.ctx = "ready")
                => /\ self'.card_id = -1 /\ self'.sink_id = -1 /\ self'.source_id = -1
                   /\ self'.sink_ports = NullTable /\ self'.source_ports = NullTable
                   /\ [i \in DOMAIN queue' |-> queue'[i].k] = DiscoveryRequests]_vars
    /\ []((mon.nfail > 0 /\ DiscoveryDone)
             => /\ self.card_id = IF srv.cardUp THEN CardIdx ELSE -1
                /\ self.sink_id \in {-1} \cup (IF srv.sinkUp THEN {srv.sinkIdx} ELSE {})
                /\ self.source_id \in {-1, srv.sourceIdx}
                /\ (srv.cardUp /\ srv.sinkUp) => self.sink_id = srv.sinkIdx
                /\ srv.cardUp => self.source_id = srv.sourceIdx)

\* after a failure the new connection has found the card, and the sink and the
\* source under the new indices they have
C20_Witness ==
    /\ mon.nfail > 0 /\ DiscoveryDone
    /\ srv.sinkIdx # FirstSinkIdx /\ srv.sourceIdx # FirstSourceIdx
    /\ self.card_id = CardIdx
    /\ self.sink_id = srv.sinkIdx
    /\ self.source_id = srv.sourceIdx

(***************************************************************************)
(* Installing sinks and sources, and the subscription events.              *)
(***************************************************************************)
\* the step is the reply to the oldest request: no event is heard, no connection
\* fails and no intent allocates an operation
Replied ==
    /\ alive /\ queue # <<>> /\ queue' # queue
    /\ mon.nev' = mon.nev /\ mon.nfail' = mon.nfail /\ Len(ops') = Len(ops)

Sent == SubSeq(queue', Len(queue), Len(queue'))

Accepted(info, id) ==
    /\ info.class = NULL \/ info.class = SINK_CLASS
    /\ info.card = self.card_id
    /\ id = -1

FirstAccepted(items, id) ==
    LET acc == {i \in DOMAIN items : Accepted(items[i], id)}
    IN  IF acc = {} THEN 0 ELSE CHOOSE i \in acc : \A j \in acc : i <= j

InstallerSetPort(k, info) ==
    \/ Sent = <<>>
    \/ /\ Len(Sent) = 1
       /\ Sent[1].k = k /\ Sent[1].idx = info.index
       /\ Sent[1].arg \in PortNames(info.ports)

\* C21 (as claimed): a sink or source information the installer does not accept
\* (wrong class, another card, or a sink/source already tracked) changes no tracked
\* state and sends no set-port request; a set-port request of the installer targets
\* the sink/source just installed with a port name of that same object.
C21_InstallerActsOnAcceptedOnly ==
    [][ /\ (Replied /\ Head(queue).cb = "init_sink_info") =>
             LET items == server_items(srv, Head(queue))
                 a == FirstAccepted(items, self.sink_id)
             IN  IF a = 0
                 THEN self' = self /\ queue' = Tail(queue)
                 ELSE /\ self'.sink_id = items[a].index
                      /\ InstallerSetPort("set_sink_port_by_index", items[a])
        /\ (Replied /\ Head(queue).cb = "init_source_info") =>
             LET items == server_items(srv, Head(queue))
                 a == FirstAccepted(items, self.source_id)
             IN  IF a = 0
                 THEN self' = self /\ queue' = Tail(queue)
                 ELSE /\ self'.source_id = items[a].index
                      /\ InstallerSetPort("set_source_port_by_index", items[a])
      ]_vars

\* the step is the subscription callback hearing of an event of this kind
Heard(kind) == mon.nev' = mon.nev + 1 /\ mon.ev'[2] = kind

Indices(infos) == {infos[i].index : i \in DOMAIN infos}

\* C22 (as claimed): a Remove event for the tracked sink, source or card index
\* makes that index absent and drops its ports map, a Remove event for another
\* index changes no tracked index or map, and so every tracked index is absent or
\* the index of an object the server still has.
C22_RemoveClearsTrackedIndex ==
    /\ [][ Heard("REMOVE") =>
             LET facility == mon.ev'[1]
                 idx == mon.ev'[3]
             IN  CASE facility = "SINK" /\ idx = self.sink_id ->
                         self' = [self EXCEPT !.sink_id = -1, !.sink_ports = NullTable]
                   [] facility = "SOURCE" /\ idx = self.source_id ->
                         self' = [self EXCEPT !.source_id = -1, !.source_ports = NullTable]
                   [] facility = "CARD" /\ idx = self.card_id ->
                         self' = [self EXCEPT !.card_id = -1]
                   [] OTHER -> self' = self
         ]_vars
    /\ [](self.ctx = "ready" =>
             /\ self.card_id \in {-1} \cup Indices(card_infos(srv))
             /\ self.sink_id \in {-1} \cup Indices(sink_infos(srv))
             /\ self.source_id \in {-1} \cup
                   (IF srv.sourceUp THEN {source_info(srv).index} ELSE {}))

\* the ports of an info whose known availability is not the stored one (a port the
\* map does not hold is stored as unknown)
Differing(info, table) ==
    {i \in DOMAIN info.ports :
        /\ info.ports[i].available # PA_PORT_AVAILABLE_UNKNOWN
        /\ g_hash_table_lookup(table, info.ports[i].name) # info.ports[i].available}

Persisted(info, table, new) ==
    /\ ~new.null
    /\ \A i \in DOMAIN info.ports :
          LET port == info.ports[i]
          IN  g_hash_table_lookup(new, port.name) =
                 IF port.available # PA_PORT_AVAILABLE_UNKNOWN
                 THEN port.available
                 ELSE g_hash_table_lookup(table, port.name)

\* what the subscription callback appends to the queue
Asked == SubSeq(queue', Len(queue) + 1, Len(queue'))

Fetches(cb) == {i \in DOMAIN Asked : Asked[i].cb = cb}

\* C23 (as claimed): on a Change event for the tracked card a tracked Droid sink or
\* source is neither fetched nor given a set-port request; a tracked Native one is
\* fetched and reconciled, and a set-port request with the selector's choice (no
\* exclusion) is sent iff a port of known availability differs from the stored
\* value and the selector returns a name; if nothing differs the map is unchanged
\* and nothing is sent.
C23_CardChangeReconcilesNativeOnly ==
    [][ /\ (Heard("CHANGE") /\ mon.ev'[1] = "CARD" /\ mon.ev'[3] = self.card_id) =>
             /\ self' = self
             /\ \A i \in DOMAIN Asked : Asked[i].k \in InfoRequests
             /\ Fetches("change_sink_info") # {}
                   <=> (self.sink_id # -1 /\ ~self.sink_is_droid)
             /\ Fetches("change_source_info") # {}
                   <=> (self.source_id # -1 /\ ~self.source_is_droid)
        /\ (Replied /\ Head(queue).cb = "change_sink_info"
              /\ server_items(srv, Head(queue)) # <<>>
              /\ Head(queue).idx = self.sink_id) =>
             LET info == server_items(srv, Head(queue))[1]
                 target_port == get_available_sink_port(info, NULL, self.sink_is_droid)
             IN  IF Differing(info, self.sink_ports) # {}
                 THEN /\ Persisted(info, self.sink_ports, self'.sink_ports)
                      /\ IF target_port # NULL
                         THEN Sent = <<Request("set_sink_port_by_index", self.sink_id,
                                               target_port, 0, "NULL", 0)>>
                         ELSE Sent = <<>>
                 ELSE self' = self /\ Sent = <<>>
        /\ (Replied /\ Head(queue).cb = "change_source_info"
              /\ server_items(srv, Head(queue)) # <<>>
              /\ Head(queue).idx = self.source_id) =>
             LET info == server_items(srv, Head(queue))[1]
                 target_port == get_available_source_port(info, NULL, self.source_is_droid)
             IN  IF Differing(info, self.source_ports) # {}
                 THEN /\ Persisted(info, self.source_ports, self'.source_ports)
                      /\ IF target_port # NULL
                         THEN Sent = <<Request("set_source_port_by_index", self.source_id,
                                               target_port, 0, "NULL", 0)>>
                         ELSE Sent = <<>>
                 ELSE self' = self /\ Sent = <<>>
      ]_vars

SetSinkPort(index, target_port) ==
    IF target_port # NULL
    THEN <<Request("set_sink_port_by_index", index, target_port, 0, "NULL", 0)>>
    ELSE <<>>

\* C24 (as claimed): the output selector for the tracked sink runs with the flavor
\* of that sink's own device API, whatever the source's flavor is and whether or
\* not a source has been discovered: the port requested when a sink is installed
\* and the port requested by a reconciliation are the selector's choice under the
\* sink's flavor.
C24_SinkSelectorUsesSinkFlavor ==
    [][ /\ (Replied /\ Head(queue).cb = "init_sink_info"
              /\ Len(server_items(srv, Head(queue))) = 1
              /\ Accepted(server_items(srv, Head(queue))[1], self.sink_id)) =>
             LET info == server_items(srv, Head(queue))[1]
                 droid == info.api = DROID_API_NAME
             IN  Sent = SetSinkPort(info.index, get_available_sink_port(info, NULL, droid))
        /\ (Replied /\ Head(queue).cb = "change_sink_info"
              /\ server_items(srv, Head(queue)) # <<>>
              /\ Head(queue).idx = self.sink_id
              /\ Differing(server_items(srv, Head(queue))[1], self.sink_ports) # {}) =>
             LET info == server_items(srv, Head(queue))[1]
             IN  Sent = SetSinkPort(info.index,
                                    get_available_sink_port(info, NULL, self.sink_is_droid))
      ]_vars

(***************************************************************************)
(* What discovery leaves behind.                                           *)
(***************************************************************************)
TrackedCards == {info \in Range(card_infos(srv)) : info.index = self.card_id}

\* C25 (as claimed): after every completed discovery, the one after a reconnect
\* included, has_voice_profile is true iff a card is tracked and one of its profile
\* names contains the UCM voice-call verb or the literal voicecall.
C25_VoiceProfileOfTrackedCard ==
    DiscoveryDone =>
        (self.has_voice_profile <=>
            \E info \in TrackedCards :
                \E i \in DOMAIN info.profiles :
                    \/ strstr(info.profiles[i], SND_USE_CASE_VERB_VOICECALL)
                    \/ strstr(info.profiles[i], DROID_PROFILE_VOICECALL))

\* the loudspeaker port of a sink as the cache is described: the port named
\* output-speaker on Droid, the first port carrying the speaker token on Native
SpeakerPortOf(info) ==
    LET droid == info.api = DROID_API_NAME
        speakers == {i \in DOMAIN info.ports :
                        IF droid
                        THEN info.ports[i].name = DROID_OUTPUT_PORT_SPEAKER
                        ELSE strstr(info.ports[i].name, SND_USE_CASE_DEV_SPEAKER)}
    IN  IF speakers = {}
        THEN NULL
        ELSE info.ports[CHOOSE i \in speakers : \A j \in speakers : i <= j].name

\* C26 (as claimed): when a sink is installed the cached speaker port becomes that
\* sink's loudspeaker port (Droid: output-speaker; Native: the first port whose name
\* contains the speaker token) and is absent when the sink has none, so the cached
\* name is always a port of the tracked sink.
C26_SpeakerPortOfInstalledSink ==
    /\ [][ (Replied /\ Head(queue).cb = "init_sink_info"
              /\ FirstAccepted(server_items(srv, Head(queue)), self.sink_id) # 0) =>
             LET items == server_items(srv, Head(queue))
             IN  self'.speaker_port = SpeakerPortOf(items[FirstAccepted(items, self.sink_id)])
         ]_vars
    /\ []((self.ctx = "ready" /\ self.sink_id # -1 /\ self.speaker_port # NULL) =>
             \E info \in Range(sink_infos(srv)) :
                 info.index = self.sink_id /\ self.speaker_port \in PortNames(info.ports))

(***************************************************************************)
(* Overlapping SelectMode intents and the implicit unmute.                 *)
(***************************************************************************)
SelectModes == {o \in DOMAIN ops : ops[o].op /\ ops[o].type = CAD_OPERATION_SELECT_MODE}

\* C27 (as claimed): two SelectMode intents with different targets, the second
\* issued before the first chain has completed, on a card with a voice profile:
\* once both chains have completed, the card's active profile (one of the default
\* and the voice-call profile) and current_mode are those of the later intent.
C27_LaterSelectModeWins ==
    \A o1 \in SelectModes, o2 \in SelectModes :
        (/\ o1 < o2 /\ ops[o2].overlap
         /\ ops[o1].value # ops[o2].value
         /\ srv.voice /\ srv.profile # OtherProfile /\ mon.nev = 0
         /\ Handled(o1) /\ ops[o1].success /\ Handled(o2) /\ ops[o2].success
         /\ queue = <<>>) =>
            /\ self.current_mode = ops[o2].value
            /\ srv.profile \in VoiceCallProfiles <=> ops[o2].value = CALL_AUDIO_MODE_CALL

\* the auxiliary operations of the implicit unmute: they carry no completion handle
Auxiliary == {o \in DOMAIN ops : ~ops[o].op /\ ops[o].type = "none"}

\* the step is a SelectMode intent with a completion handle
SelectModeIssued ==
    /\ Len(ops') > Len(ops)
    /\ ops'[Len(ops) + 1].type = CAD_OPERATION_SELECT_MODE

UnmuteFetch(o) ==
    Request("get_source_info_by_index", self.source_id, NULL, 0, "set_mic_mute", o)

\* C28 (as claimed): SelectMode with a target other than Call fetches the source
\* for an implicit unmute under a separate auxiliary operation, even when no source
\* is tracked, and SelectMode(Call) does not; the auxiliary operation clears mute
\* only when the source reports muted, never invokes a completion handle, never
\* changes current_mode, and leaves the main chain's operations and requests alone.
C28_ImplicitUnmuteIsAuxiliary ==
    /\ [][ SelectModeIssued =>
             LET o == Len(ops) + 1
             IN  IF ops'[o].value # CALL_AUDIO_MODE_CALL
                 THEN /\ Len(ops') = o + 1
                      /\ ~ops'[o + 1].op /\ ops'[o + 1].type = "none"
                      /\ Asked # <<>> /\ Asked[1] = UnmuteFetch(o + 1)
                      /\ \A i \in DOMAIN Asked : i > 1 => Asked[i].data = o
                 ELSE /\ Len(ops') = o
                      /\ \A i \in DOMAIN Asked : Asked[i].data = o
         ]_vars
    /\ [][ (Replied /\ Head(queue).data \in Auxiliary) =>
             LET o == Head(queue).data
             IN  /\ self' = self
                 /\ \A p \in DOMAIN ops : p # o => ops'[p] = ops[p]
                 /\ Sent \in {<<>>, <<Request("set_source_mute_by_index", self.source_id,
                                             NULL, 0, "operation_complete_cb", o)>>}
                 /\ Sent # <<>> =>
                       /\ Head(queue).k = "get_source_info_by_index"
                       /\ srv.sourceUp /\ srv.mute
         ]_vars
    /\ [](\A o \in Auxiliary : ops[o].calls = 0 /\ ~ops[o].success)

\* the main chain has completed with success while the auxiliary operation's
\* set-mute request is still to be answered
C28_Witness ==
    \E o \in Auxiliary :
        /\ o - 1 \in SelectModes /\ Handled(o - 1) /\ ops[o - 1].success
        /\ \E i \in DOMAIN queue :
              queue[i].k = "set_source_mute_by_index" /\ queue[i].data = o

(***************************************************************************)
(* The port steps and the port maps.                                       *)
(***************************************************************************)
SetPortRequests == {"set_sink_port_by_index", "set_source_port_by_index"}

\* C29 (as claimed): OutputPortStep and InputPortStep never compare the active
\* port with an absent target (no candidate left, or EnableSpeaker(true) with no
\* speaker port cached) nor an absent active port: the comparison is always
\* defined and every set-port request they send names a port.
C29_PortStepComparesDefinedNames ==
    [][ (Replied /\ Head(queue).cb \in {"set_output_port", "set_input_port"}) =>
             /\ alive'
             /\ \A i \in DOMAIN Sent : Sent[i].k \in SetPortRequests => Sent[i].arg # NULL
      ]_vars

Known == {PA_PORT_AVAILABLE_NO, PA_PORT_AVAILABLE_YES}

MapOf(table, id, infos) ==
    /\ table.null <=> id = -1
    /\ \A name \in DOMAIN table.map : table.map[name] \in Known
    /\ \A name \in DOMAIN table.map :
          \E info \in Range(infos) : info.index = id /\ name \in PortNames(info.ports)

SourceInfos == IF srv.sourceUp THEN <<source_info(srv)>> ELSE <<>>

\* C30 (as claimed): in every reachable state the port map of the tracked sink and
\* of the tracked source holds only the values yes and no, every key is a port name
\* the server reports for that sink or source, and the map exists exactly when the
\* index is tracked.
C30_PortMapsOfTrackedDevices ==
    /\ MapOf(self.sink_ports, self.sink_id, sink_infos(srv))
    /\ MapOf(self.source_ports, self.source_id, SourceInfos)

\* the same while the server connection is ready: init_pulseaudio_objects has
\* replaced the zero-filled indices by then
PortMapsOnceReady ==
    self.ctx = "ready" => C30_PortMapsOfTrackedDevices

====
